---- MODULE Spec2Model ----
(***************************************************************************)
(* ZeroForums0: the server-side request pipeline (handleRequest,           *)
(* SecurityManager) and the client-side session lifecycle (AuthManager).   *)
(* Time is the value of Date.now() in milliseconds.                        *)
(***************************************************************************)
EXTENDS Integers, Sequences, FiniteSets, TLC

VARIABLES
    now,            \* Date.now(), shared wall clock (ms)
    rateLimitMap,   \* SecurityManager.rateLimitMap: client key -> accepted timestamps
    loginAttempts,  \* SecurityManager.loginAttempts: client key -> attempts
    last,           \* history: the request handled last and what became of it
    passedNonces,   \* history: nonces of the requests that passed validateRequest
    issued,         \* history: session ids created after a successful login/registration
    failLog,        \* history: every failed attempt ever recorded, per client key
    accepted,       \* history: per client key, when the requests younger than
                    \*   60 s that passed the rate limiter arrived
    nHandled,       \* history: number of requests handled so far
    session,        \* AuthManager.session (in memory)
    sessions,       \* IndexedDB ZeroForums0_Auth, store 'sessions', record 'current_session'
    authKeys,       \* AuthManager.crypto.keys
    keyStore,       \* IndexedDB ZeroForums0_Crypto, store 'keys', record 'user_keys'
    appKeys,        \* ZeroForums0App.crypto.keys
    pending,        \* a login is waiting for the server's answer
    captchaTokens,  \* AuthManager.captchaTokens: token -> challenge data
    captchaLog,     \* history: the tokens the server issued, and those for which
                    \*   validateCaptcha returned true
    state,          \* ZeroForums0App.state: currentUser, isInitialized
    client,         \* history: the client operation run last and what became of it
    manager,        \* a CryptoManager of its own: keys, isInitialized
    managerOp       \* history: the operation run last on that CryptoManager

serverVars == <<rateLimitMap, loginAttempts, last, passedNonces, issued,
                failLog, accepted, nHandled>>
clientVars == <<session, sessions, authKeys, keyStore, appKeys, pending,
                captchaTokens, captchaLog, state, client, manager, managerOp>>
vars == <<now, serverVars, clientVars>>

----------------------------------------------------------------------------
(* SECURITY_CONSTANTS and the literals of the request pipeline *)

RATE_LIMIT_WINDOW == 60 * 1000
RATE_LIMIT_MAX_REQUESTS == 100
MAX_LOGIN_ATTEMPTS == 3
LOCKOUT_BASE_DURATION == 24 * 60 * 60 * 1000
SESSION_TIMEOUT == 24 * 60 * 60 * 1000
ATTEMPT_WINDOW == 24 * 60 * 60 * 1000
TIMESTAMP_SKEW == 5 * 60 * 1000
SESSION_TTL == 24 * 60 * 60 * 1000

----------------------------------------------------------------------------
(* Bounds of the explored behaviours *)

MaxHandled == 2
MaxTicks == 1
MaxRateTicks == 3
MaxLockTicks == 4
MaxLockRecorded == 4
MaxPipelineTicks == 1
MaxRecorded == 3
MaxClientTicks == 3

----------------------------------------------------------------------------
(* Generic helpers *)

Abs(x) == IF x < 0 THEN -x ELSE x

RECURSIVE Pow(_, _)
Pow(b, e) == IF e <= 0 THEN 1 ELSE b * Pow(b, e - 1)

----------------------------------------------------------------------------
(* Requests as they arrive at the worker.                                  *)
(* A header that is missing is the empty string.  The x-timestamp header   *)
(* is a text made of a (possibly empty) run of leading digits, of value    *)
(* val, followed or not by other characters (junk).  A signature is either *)
(* missing, a text atob cannot decode, or the base64 text of an HMAC over  *)
(* some request data under some secret.                                    *)

Absent == ""

TsHeader(hasDigits, val, junk) == [digits |-> hasDigits, val |-> val, junk |-> junk]
NoTsHeader == TsHeader(FALSE, 0, FALSE)

NoSig == [kind |-> "absent", data |-> <<>>, secret |-> Absent]
GarbageSig == [kind |-> "garbage", data |-> <<>>, secret |-> Absent]

UUIDs == {"uuid-1", "uuid-2"}
BadToken == "not-a-uuid"

LoginPath == "/api/auth/login"
RegisterPath == "/api/auth/register"
LogoutPath == "/api/auth/logout"
CaptchaPath == "/api/auth/captcha"
HealthPath == "/api/health"
WipePath == "/api/wipe"
ConversationsPath == "/api/chat/conversations"
PostsPath == "/api/forum/posts"
CheckUsernamePath == "/api/auth/check-username"
AvatarPath == "/api/auth/avatar"

NoBody == "none"
MalformedBody == "{not json"

----------------------------------------------------------------------------
(* Client side of request signing: AuthManager.makeSecureRequest *)

\* crypto.generateHMAC: the base64 text of HMAC-SHA256(data) under secret
generateHMAC(data, secret) == [kind |-> "hmac", data |-> data, secret |-> secret]

\* the requestData object that makeSecureRequest signs
RequestData(method, path, body, timestamp, nonce) ==
    <<method, path, body, timestamp, nonce>>

\* the secret makeSecureRequest signs with: the session id, or 'public'
SigningSecret(sessionToken) == IF sessionToken = Absent THEN "public" ELSE sessionToken

\* the request makeSecureRequest sends for a client with the given headers
makeSecureRequest(ip, path, method, body, timestamp, nonce, sessionToken) ==
    [ ip |-> ip, ua |-> Absent, fp |-> Absent,
      method |-> method, path |-> path, body |-> body,
      contentType |-> "application/json",
      xTimestamp |-> TsHeader(TRUE, timestamp, FALSE),
      xNonce |-> nonce,
      xSignature |-> generateHMAC(RequestData(method, path, body, timestamp, nonce),
                                  SigningSecret(sessionToken)),
      xSessionToken |-> sessionToken ]

----------------------------------------------------------------------------
(* parseAndValidateRequest *)

NoError == [name |-> "none", code |-> "none", message |-> "none"]
ValidationError(msg) == [name |-> "ValidationError", code |-> "none", message |-> msg]
SecurityError(msg, code) == [name |-> "SecurityError", code |-> code, message |-> msg]
AuthenticationError(msg) == [name |-> "AuthenticationError", code |-> "none", message |-> msg]

\* parseInt(headers['x-timestamp']): the leading digits, NaN when there are none
parseInt(h) == [nan |-> ~h.digits, val |-> IF h.digits THEN h.val ELSE 0]

\* Math.abs(now - timestamp) > 5 * 60 * 1000; every comparison with NaN is false
TimestampTooFar(t, ts) == ~ts.nan /\ Abs(t - ts.val) > TIMESTAMP_SKEW

\* the error parseAndValidateRequest throws for req at time t, NoError if none
ParseError(req, t) ==
    IF req.contentType = Absent THEN ValidationError("Missing Content-Type header")
    ELSE IF req.xTimestamp = NoTsHeader THEN ValidationError("Missing timestamp header")
    ELSE IF req.xNonce = Absent THEN ValidationError("Missing nonce header")
    ELSE IF req.xSignature.kind = "absent" THEN ValidationError("Missing signature header")
    ELSE IF req.body = MalformedBody THEN ValidationError("Invalid JSON body")
    ELSE IF TimestampTooFar(t, parseInt(req.xTimestamp))
         THEN ValidationError("Timestamp too old or too far in future")
    ELSE NoError

\* the APIRequest parseAndValidateRequest returns
parseAndValidateRequest(req) ==
    [ method |-> req.method, path |-> req.path, body |-> req.body,
      ip |-> req.ip, ua |-> req.ua, fp |-> req.fp,
      sessionToken |-> req.xSessionToken,
      timestamp |-> parseInt(req.xTimestamp),
      nonce |-> req.xNonce,
      signature |-> req.xSignature ]

----------------------------------------------------------------------------
(* SecurityManager *)

OrUnknown(h) == IF h = Absent THEN "unknown" ELSE h

\* `${ip}|${userAgent}|${fingerprint}`
getClientKey(api) == <<OrUnknown(api.ip), OrUnknown(api.ua), OrUnknown(api.fp)>>

\* the filter keeping a request that is exactly one window old
RecentRequestsInclusive(requests, t) ==
    SelectSeq(requests, LAMBDA ts : t - ts <= RATE_LIMIT_WINDOW)

\* requests.filter(timestamp => now - timestamp < RATE_LIMIT_WINDOW)
RecentRequests(requests, t) == SelectSeq(requests, LAMBDA ts : t - ts < RATE_LIMIT_WINDOW)

\* the limit test with > in place of >=
RateLimitedOffByOne(requests, t) == Len(RecentRequests(requests, t)) > RATE_LIMIT_MAX_REQUESTS
RateLimited(requests, t) == Len(RecentRequests(requests, t)) >= RATE_LIMIT_MAX_REQUESTS

\* validateRateLimit that stores the current request alone
validateRateLimitOverwrites(api, t, map) ==
    LET clientKey == getClientKey(api)
    IN  IF RateLimited(map[clientKey], t)
        THEN [err |-> SecurityError("Rate limit exceeded", "RATE_LIMIT_EXCEEDED"),
              map |-> map]
        ELSE [err |-> NoError, map |-> [map EXCEPT ![clientKey] = <<t>>]]

\* validateRateLimit that counts the request it rejects
validateRateLimitCountsRejected(api, t, map) ==
    LET clientKey == getClientKey(api)
        requests == RecentRequests(map[clientKey], t)
    IN  [err |-> IF RateLimited(map[clientKey], t)
                 THEN SecurityError("Rate limit exceeded", "RATE_LIMIT_EXCEEDED")
                 ELSE NoError,
         map |-> [map EXCEPT ![clientKey] = Append(requests, t)]]

\* validateRateLimit: the error thrown, and the map it leaves
validateRateLimit(api, t, map) ==
    LET clientKey == getClientKey(api)
        requests == RecentRequests(map[clientKey], t)
    IN  IF RateLimited(map[clientKey], t)
        THEN [err |-> SecurityError("Rate limit exceeded", "RATE_LIMIT_EXCEEDED"),
              map |-> map]
        ELSE [err |-> NoError,
              map |-> [map EXCEPT ![clientKey] = Append(requests, t)]]

\* atob(signature...) does not throw and signature.length > 0
isValidSignatureFormat(signature) == signature.kind = "hmac"

\* buildSignedString: computed by validateSignature, compared with nothing
buildSignedString(api) == <<api.method, api.path, api.timestamp, api.nonce, api.body>>

validateSignature(api) ==
    IF api.signature.kind = "absent"
    THEN SecurityError("Missing signature", "MISSING_SIGNATURE")
    ELSE IF ~isValidSignatureFormat(api.signature)
    THEN SecurityError("Invalid signature format", "INVALID_SIGNATURE")
    ELSE NoError

\* attempts.filter(attempt => now - attempt.timestamp.getTime() < 24h)
RecentAttempts(attempts, t) ==
    SelectSeq(attempts, LAMBDA a : t - a.timestamp < ATTEMPT_WINDOW)

FailedAttempts(attempts, t) ==
    SelectSeq(RecentAttempts(attempts, t), LAMBDA a : ~a.success)

\* lastFailed.timestamp + 3^(failed - 3) * LOCKOUT_BASE_DURATION
LockoutUntil(failed) ==
    failed[Len(failed)].timestamp
        + Pow(3, Len(failed) - 3) * LOCKOUT_BASE_DURATION

LockedOut(attempts, t) ==
    LET failed == FailedAttempts(attempts, t)
    IN  /\ Len(failed) >= MAX_LOGIN_ATTEMPTS
        /\ t < LockoutUntil(failed)

validateBruteForce(api, t, attempts) ==
    IF api.path # LoginPath THEN NoError
    ELSE IF LockedOut(attempts[getClientKey(api)], t)
    THEN AuthenticationError("Account temporarily locked due to too many failed login attempts")
    ELSE NoError

PublicEndpoints == {RegisterPath, LoginPath, CaptchaPath, HealthPath}

requiresAuthentication(path) == path \notin PublicEndpoints

\* the UUID regular expression
isValidSessionToken(token) == token \in UUIDs

validateSession(api) ==
    IF api.sessionToken = Absent THEN AuthenticationError("Missing session token")
    ELSE IF ~isValidSessionToken(api.sessionToken)
    THEN AuthenticationError("Invalid session token format")
    ELSE NoError

\* validateRequest with the signature check's rejection never observed
validateRequestUnawaited(api, t, map, attempts) ==
    LET rate == validateRateLimit(api, t, map)
        brute == validateBruteForce(api, t, attempts)
        sess == validateSession(api)
    IN  IF rate.err # NoError
        THEN [err |-> rate.err, map |-> rate.map, checks |-> <<"rateLimit">>]
        ELSE IF brute # NoError
        THEN [err |-> brute, map |-> rate.map,
              checks |-> <<"rateLimit", "signature", "bruteForce">>]
        ELSE IF requiresAuthentication(api.path)
        THEN [err |-> sess, map |-> rate.map,
              checks |-> <<"rateLimit", "signature", "bruteForce", "session">>]
        ELSE [err |-> NoError, map |-> rate.map,
              checks |-> <<"rateLimit", "signature", "bruteForce">>]

\* validateRequest: the checks in the order they run, stopping at the first
\* that throws; checks lists the ones that ran
validateRequest(api, t, map, attempts) ==
    LET rate == validateRateLimit(api, t, map)
        sig == validateSignature(api)
        brute == validateBruteForce(api, t, attempts)
        sess == validateSession(api)
    IN  IF rate.err # NoError
        THEN [err |-> rate.err, map |-> rate.map, checks |-> <<"rateLimit">>]
        ELSE IF sig # NoError
        THEN [err |-> sig, map |-> rate.map, checks |-> <<"rateLimit", "signature">>]
        ELSE IF brute # NoError
        THEN [err |-> brute, map |-> rate.map,
              checks |-> <<"rateLimit", "signature", "bruteForce">>]
        ELSE IF requiresAuthentication(api.path)
        THEN [err |-> sess, map |-> rate.map,
              checks |-> <<"rateLimit", "signature", "bruteForce", "session">>]
        ELSE [err |-> NoError, map |-> rate.map,
              checks |-> <<"rateLimit", "signature", "bruteForce">>]

----------------------------------------------------------------------------
(* routeRequest and handleRequest *)

MethodNotAllowed == ValidationError("Method not allowed")
Routed(handler) == [handler |-> handler, err |-> NoError]
NotRouted(err) == [handler |-> "none", err |-> err]

\* routeRequest, for the paths above (the prefix routes of chat and forum
\* are matched by none of them)
routeRequest(api) ==
    LET m == api.method
    IN  CASE api.path = RegisterPath ->
               IF m # "POST" THEN NotRouted(MethodNotAllowed)
               ELSE Routed("AuthHandler.register")
          [] api.path = LoginPath ->
               IF m # "POST" THEN NotRouted(MethodNotAllowed)
               ELSE Routed("AuthHandler.login")
          [] api.path = LogoutPath ->
               IF m # "POST" THEN NotRouted(MethodNotAllowed)
               ELSE Routed("AuthHandler.logout")
          [] api.path = CaptchaPath ->
               IF m # "GET" THEN NotRouted(MethodNotAllowed)
               ELSE Routed("AuthHandler.getCaptcha")
          [] api.path = ConversationsPath ->
               IF m = "GET" THEN Routed("ChatHandler.getConversations")
               ELSE IF m = "POST" THEN Routed("ChatHandler.createConversation")
               ELSE NotRouted(MethodNotAllowed)
          [] api.path = PostsPath ->
               IF m = "GET" THEN Routed("ForumHandler.getPosts")
               ELSE IF m = "POST" THEN Routed("ForumHandler.createPost")
               ELSE NotRouted(MethodNotAllowed)
          [] api.path = WipePath ->
               IF m # "POST" THEN NotRouted(MethodNotAllowed)
               ELSE Routed("handleWipeRequest")
          [] api.path = HealthPath ->
               IF m # "GET" THEN NotRouted(MethodNotAllowed)
               ELSE Routed("health")
          [] OTHER -> NotRouted(ValidationError("Endpoint not found"))

\* createErrorResponse(..., 400) for the three error classes, 200 otherwise
StatusOf(err) == IF err = NoError THEN 200 ELSE 400

\* what handleRequest does with req at time t: the stage that ended it, the
\* error thrown, the checks that ran and the rate-limit map it leaves
Outcome(req, t, map, attempts) ==
    LET perr == ParseError(req, t)
        api == parseAndValidateRequest(req)
        v == validateRequest(api, t, map, attempts)
        route == routeRequest(api)
    IN  IF perr # NoError
        THEN [stage |-> "parse", err |-> perr, checks |-> <<"parse">>,
              handler |-> "none", map |-> map]
        ELSE IF v.err # NoError
        THEN [stage |-> "validate", err |-> v.err, checks |-> <<"parse">> \o v.checks,
              handler |-> "none", map |-> v.map]
        ELSE [stage |-> "route", err |-> route.err,
              checks |-> <<"parse">> \o v.checks \o <<"route">>,
              handler |-> route.handler, map |-> v.map]

\* history: the arrival times in s that are less than 60 seconds before t
Young(s, t) == SelectSeq(s, LAMBDA ts : t - ts < 60 * 1000)

\* history: the request got past validateRateLimit
PassedRateLimit(o) ==
    /\ o.stage # "parse"
    /\ o.err.code # "RATE_LIMIT_EXCEEDED"


NoRequest == makeSecureRequest(Absent, Absent, Absent, NoBody, 0, Absent, Absent)

NoLast ==
    [ req |-> NoRequest, at |-> 0, stage |-> "none", err |-> NoError, status |-> 0,
      checks |-> <<>>, handler |-> "none", answer |-> "none", replay |-> FALSE,
      failuresBefore |-> <<>>, youngBefore |-> 0 ]

\* handleRequest(request): parse, validate, route; the handler behind the
\* route answers success or not (handlerOk), and after a successful login or
\* registration the client creates a session with id sid (createSession)
Handled(req, handlerOk, sid) ==
    \E o \in {Outcome(req, now, rateLimitMap, loginAttempts)} :
    LET key == getClientKey(parseAndValidateRequest(req))
        creates == /\ o.handler \in {"AuthHandler.login", "AuthHandler.register"}
                   /\ handlerOk
                   /\ \A s \in issued : s.id # sid
    IN  /\ rateLimitMap' = o.map
        /\ last' = [ req |-> req, at |-> now, stage |-> o.stage, err |-> o.err,
                     status |-> StatusOf(o.err), checks |-> o.checks,
                     handler |-> o.handler,
                     answer |-> IF o.handler = "none" THEN "none"
                                ELSE IF handlerOk THEN "success" ELSE "failure",
                     replay |-> req.xNonce \in passedNonces,
                     failuresBefore |-> failLog[key],
                     youngBefore |-> Len(Young(accepted[key], now)) ]
        /\ accepted' = IF PassedRateLimit(o)
                       THEN [accepted EXCEPT ![key] = Append(Young(@, now), now)]
                       ELSE accepted
        /\ passedNonces' = IF o.stage = "route"
                           THEN passedNonces \cup {req.xNonce} ELSE passedNonces
        /\ issued' = IF creates
                     THEN issued \cup {[id |-> sid, expiresAt |-> now + SESSION_TIMEOUT]}
                     ELSE issued
        /\ UNCHANGED <<now, clientVars>>

\* handleRequest as far as src/ has it: no code under src/ calls
\* recordLoginAttempt
HandleRequest(req, handlerOk, sid) ==
    /\ Handled(req, handlerOk, sid)
    /\ UNCHANGED <<loginAttempts, failLog>>

\* recordLoginAttempt that files the attempt under every client key
RecordedForAll(attempts, req, success, t) ==
    [k \in DOMAIN attempts |-> Append(attempts[k], [timestamp |-> t, success |-> success])]

\* the attempts recordLoginAttempt leaves for the client key of req
Recorded(attempts, req, success, t) ==
    [attempts EXCEPT ![getClientKey(parseAndValidateRequest(req))] =
        Append(@, [timestamp |-> t, success |-> success])]

\* SecurityManager.recordLoginAttempt, for the client key of req
recordLoginAttempt(req, success) ==
    LET clientKey == getClientKey(parseAndValidateRequest(req))
    IN  /\ loginAttempts' = Recorded(loginAttempts, req, success, now)
        /\ failLog' = IF success THEN failLog
                      ELSE [failLog EXCEPT ![clientKey] = Append(@, now)]
        /\ UNCHANGED <<now, rateLimitMap, last, passedNonces, issued, accepted,
                       nHandled, clientVars>>

\* a login handler that records failed attempts only
AuthHandlerLoginFailuresOnly(req, handlerOk, sid) ==
    LET o == Outcome(req, now, rateLimitMap, loginAttempts)
        clientKey == getClientKey(parseAndValidateRequest(req))
    IN  /\ Handled(req, handlerOk, sid)
        /\ IF o.handler = "AuthHandler.login" /\ ~handlerOk
           THEN /\ loginAttempts' = Recorded(loginAttempts, req, handlerOk, now)
                /\ failLog' = [failLog EXCEPT ![clientKey] = Append(@, now)]
           ELSE UNCHANGED <<loginAttempts, failLog>>

\* handleRequest with AuthHandler.login behind the login route: it records
\* the attempt it has answered, successful or not, with recordLoginAttempt
AuthHandlerLogin(req, handlerOk, sid) ==
    LET o == Outcome(req, now, rateLimitMap, loginAttempts)
        clientKey == getClientKey(parseAndValidateRequest(req))
    IN  /\ Handled(req, handlerOk, sid)
        /\ IF o.handler = "AuthHandler.login"
           THEN /\ loginAttempts' = Recorded(loginAttempts, req, handlerOk, now)
                /\ failLog' = IF handlerOk THEN failLog
                              ELSE [failLog EXCEPT ![clientKey] = Append(@, now)]
           ELSE UNCHANGED <<loginAttempts, failLog>>

\* SecurityManager.cleanupExpiredData
cleanupExpiredData ==
    /\ rateLimitMap' = [k \in DOMAIN rateLimitMap |-> RecentRequests(rateLimitMap[k], now)]
    /\ loginAttempts' = [k \in DOMAIN loginAttempts |-> RecentAttempts(loginAttempts[k], now)]
    /\ UNCHANGED <<now, last, passedNonces, issued, failLog, accepted, nHandled,
                   clientVars>>

\* the clock moves on by d, up to the horizon
Tick(d, horizon) ==
    /\ now + d <= horizon
    /\ now' = now + d
    /\ UNCHANGED <<serverVars, clientVars>>

----------------------------------------------------------------------------
(* The client: ZeroForums0App.init, AuthManager and the CryptoManager it   *)
(* owns.  IndexedDB and WebCrypto are the environment: every operation on  *)
(* them takes its outcome as an input.  A database operation ends "ok",    *)
(* "open_failed" (openDatabase rejects) or "tx_failed" (the request's or   *)
(* the transaction's onerror fires).  makeSecureRequest ends "success"     *)
(* (the server answered success: true), "failure" (success: false) or      *)
(* "threw" (generateHMAC or fetch threw, or the HTTP status was not ok).   *)

NoUser == "none"
Users == {"user-1"}
NoKey == "none"
KeyIds == {"key-1", "key-2"}
DbOutcomes == {"ok", "open_failed", "tx_failed"}
Responses == {"success", "failure", "threw"}

\* CryptoManager.keys = null
NoKeys == [id |-> NoKey, privateKeyObj |-> FALSE]

NoSignature == [data |-> <<>>, key |-> NoKey]

\* AuthManager.session = null, and no 'current_session' record
NoSession ==
    [sessionId |-> Absent, userId |-> NoUser, expiresAt |-> 0, signature |-> NoSignature]

\* CryptoManager.loadKeys, the request having succeeded: the stored key
\* pair without its key objects, null when nothing is stored
loadKeys(stored) ==
    IF stored = NoKey THEN NoKeys ELSE [id |-> stored, privateKeyObj |-> FALSE]

\* CryptoManager.generateKeyPair; generated = NoKey when generateKey throws
generateKeyPair(generated) == [id |-> generated, privateKeyObj |-> TRUE]

\* CryptoManager.initialize: the keys it leaves in memory and in the store,
\* and whether it threw
initialize(keys, stored, loadOut, generated, saveOut) ==
    IF loadOut = "tx_failed"
    THEN [threw |-> TRUE, keys |-> keys, keyStore |-> stored]
    ELSE LET loaded == IF loadOut = "open_failed" THEN NoKeys ELSE loadKeys(stored)
         IN  IF loaded # NoKeys
             THEN [threw |-> FALSE, keys |-> loaded, keyStore |-> stored]
             ELSE IF generated = NoKey
             THEN [threw |-> TRUE, keys |-> NoKeys, keyStore |-> stored]
             ELSE IF saveOut # "ok"
             THEN [threw |-> TRUE, keys |-> generateKeyPair(generated),
                   keyStore |-> stored]
             ELSE [threw |-> FALSE, keys |-> generateKeyPair(generated),
                   keyStore |-> generated]

\* CryptoManager.signData; NoSignature when it throws
signData(keys, data, signOk) ==
    IF keys.privateKeyObj /\ signOk THEN [data |-> data, key |-> keys.id]
    ELSE NoSignature

\* CryptoManager.verifySignature
verifySignature(data, signature, publicKey, verifyOk) ==
    /\ verifyOk
    /\ signature.key = publicKey
    /\ signature.data = data

\* the fields of a session that its signature covers
SignedFields(s) == <<s.sessionId, s.userId, s.expiresAt>>

\* createSession that signs without a private key
createSessionUnsigned(user, keys, t, uuid, signOk) ==
    LET s == [sessionId |-> uuid, userId |-> user, expiresAt |-> t + SESSION_TTL,
              signature |-> NoSignature]
    IN  [s EXCEPT !.signature = [data |-> SignedFields(s), key |-> keys.id]]

\* AuthManager.createSession; NoSession when signData throws
createSession(user, keys, t, uuid, signOk) ==
    LET s == [sessionId |-> uuid, userId |-> user, expiresAt |-> t + SESSION_TTL,
              signature |-> NoSignature]
        sig == signData(keys, SignedFields(s), signOk)
    IN  IF sig = NoSignature THEN NoSession ELSE [s EXCEPT !.signature = sig]

(* Messages.  A string is the sequence of its UTF-16 code units; UTF-8 is  *)
(* one-to-one on scalar values, so the bytes of an encoded string are      *)
(* written as the scalar values they encode.  AES-GCM is written by what   *)
(* went into a ciphertext: the tag verifies only under the key, the iv     *)
(* and the additional data of the encryption.                              *)

BOM == "U+FEFF"
REPLACEMENT == "U+FFFD"
\* high surrogates: in a string over CodeUnits none of them is followed by
\* a low surrogate, so each of them stands alone
Surrogates == {"U+D800", "U+D801"}
CodeUnits == {"U+0061", BOM} \cup Surrogates

\* new TextEncoder().encode: UTF-8, a lone surrogate becoming U+FFFD
encode(str) ==
    [i \in 1..Len(str) |-> IF str[i] \in Surrogates THEN REPLACEMENT ELSE str[i]]

\* new TextDecoder().decode: UTF-8 with ignoreBOM left false, so a
\* leading byte order mark is dropped
decode(bytes) ==
    IF Len(bytes) > 0 /\ bytes[1] = BOM THEN Tail(bytes) ELSE bytes

\* CryptoManager.arrayBufferToBase64 and base64ToArrayBuffer
arrayBufferToBase64(buffer) == [base64 |-> buffer]
base64ToArrayBuffer(base64) == base64.base64

SharedSecrets == {"secret-1", "secret-2"}
IVs == {"iv-1"}
Salts == {"salt-1"}

\* crypto.subtle.encrypt with AES-GCM
AesGcmEncrypt(key, iv, additionalData, data) ==
    [key |-> key, iv |-> iv, additionalData |-> additionalData, data |-> data]

\* crypto.subtle.decrypt with AES-GCM
AesGcmDecrypt(key, iv, additionalData, ciphertext) ==
    IF /\ ciphertext.key = key
       /\ ciphertext.iv = iv
       /\ ciphertext.additionalData = additionalData
    THEN [threw |-> FALSE, data |-> ciphertext.data]
    ELSE [threw |-> TRUE, data |-> <<>>]

NoEnvelope == [algorithm |-> "none"]

\* CryptoManager.encryptMessage; NoEnvelope when it throws
encryptMessage(isInitialized, message, sharedSecret, conversationId, iv, salt) ==
    IF ~isInitialized THEN NoEnvelope
    ELSE [ ciphertext |-> arrayBufferToBase64(
                              AesGcmEncrypt(sharedSecret, iv, encode(conversationId),
                                            encode(message))),
           iv |-> arrayBufferToBase64(iv),
           salt |-> arrayBufferToBase64(salt),
           algorithm |-> "AES-GCM" ]

\* CryptoManager.decryptMessage
decryptMessage(isInitialized, encryptedData, sharedSecret, conversationId) ==
    IF ~isInitialized THEN [threw |-> TRUE, message |-> <<>>]
    ELSE LET decrypted ==
                 AesGcmDecrypt(sharedSecret, base64ToArrayBuffer(encryptedData.iv),
                               encode(conversationId),
                               base64ToArrayBuffer(encryptedData.ciphertext))
         IN  IF decrypted.threw THEN [threw |-> TRUE, message |-> <<>>]
             ELSE [threw |-> FALSE, message |-> decode(decrypted.data)]

\* AuthManager.validateSessionIntegrity: getPublicKey throws without keys
validateSessionIntegrity(s, keys, verifyOk) ==
    /\ keys # NoKeys
    /\ verifySignature(SignedFields(s), s.signature, keys.id, verifyOk)

\* AuthManager.saveSession: the record it leaves, and whether it threw
saveSession(stored, s, out) ==
    [threw |-> out # "ok", sessions |-> IF out = "ok" THEN s ELSE stored]

\* AuthManager.clearSession: a failed open is caught and logged, a failed
\* transaction rejects the promise it returns
clearSession(stored, out) ==
    [threw |-> out = "tx_failed", sessions |-> IF out = "ok" THEN NoSession ELSE stored]

\* checkSession that rejects an expired session without clearing it
checkSessionKeepsRecord(sess, stored, keys, t, loadOut, clearOut, verifyOk) ==
    LET cleared == clearSession(stored, clearOut)
    IN  IF loadOut # "ok" \/ stored = NoSession
        THEN [user |-> NoUser, session |-> sess, sessions |-> stored]
        ELSE IF t > stored.expiresAt
        THEN [user |-> NoUser, session |-> sess, sessions |-> stored]
        ELSE IF ~validateSessionIntegrity(stored, keys, verifyOk)
        THEN [user |-> NoUser, session |-> sess, sessions |-> cleared.sessions]
        ELSE [user |-> stored.userId, session |-> stored, sessions |-> stored]

\* AuthManager.checkSession: the user it returns and the session it leaves
\* in memory and in the store.  loadSession answers null when the database
\* cannot be opened and rejects when the read fails; both end checkSession
\* with null.
checkSession(sess, stored, keys, t, loadOut, clearOut, verifyOk) ==
    LET cleared == clearSession(stored, clearOut)
    IN  IF loadOut # "ok" \/ stored = NoSession
        THEN [user |-> NoUser, session |-> sess, sessions |-> stored]
        ELSE IF t > stored.expiresAt
        THEN [user |-> NoUser, session |-> sess, sessions |-> cleared.sessions]
        ELSE IF ~validateSessionIntegrity(stored, keys, verifyOk)
        THEN [user |-> NoUser, session |-> sess, sessions |-> cleared.sessions]
        ELSE [user |-> stored.userId, session |-> stored, sessions |-> stored]

\* AuthManager.isAuthenticated
isAuthenticated(sess, t) == sess # NoSession /\ t < sess.expiresAt

\* of the characters user names are written with here ("a", "7", "_" and
\* "!"), those that /^[a-zA-Z0-9_]+$/ matches
UsernameChars == {"a", "7", "_"}
Repeated(c, n) == [i \in 1..n |-> c]

\* validateUsername without the upper bound and the character check
validateUsernameLax(username) ==
    /\ username # <<>>
    /\ ~(Len(username) < 3)

\* AuthManager.validateUsername
validateUsername(username) ==
    /\ username # <<>>
    /\ ~(Len(username) < 3 \/ Len(username) > 50)
    /\ \A i \in 1..Len(username) : username[i] \in UsernameChars

\* CryptoManager.getPublicKey, the keys being there
getPublicKey(keys) == keys.id

\* the exported private key of a key pair, as generateKeyPair returns it
\* and saveKeys stores it
privateKey(keys) ==
    IF keys.id = "key-1" THEN "pkcs8-1"
    ELSE IF keys.id = "key-2" THEN "pkcs8-2" ELSE NoKey

\* register without a profile image: profileImage is null
NoImage == [filename |-> "none"]
Files == {[name |-> "avatar.png", dataUrl |-> <<"U+0061">>]}

\* AuthManager.encryptProfileImage
encryptProfileImage(file, sharedSecret, iv, salt) ==
    LET encrypted == encryptMessage(TRUE, file.dataUrl, sharedSecret,
                                    <<"profile_image">>, iv, salt)
    IN  [ encryptedData |-> encrypted.ciphertext, iv |-> encrypted.iv,
          filename |-> file.name ]

\* register sending the exported private key in place of the public one
userDataWithPrivateKey(username, keys, profileImage) ==
    [ username |-> username,
      publicKey |-> privateKey(keys),
      profileImage |-> profileImage ]

\* the userData register sends, without its two dates
userData(username, keys, profileImage) ==
    [ username |-> username,
      publicKey |-> getPublicKey(keys),
      profileImage |-> profileImage ]

\* what makeSecureRequest is called with, and the session id it signs
\* with (Absent without a session)
Sent(path, method, body, sess) ==
    [path |-> path, method |-> method, body |-> body, sessionToken |-> sess.sessionId]

NoClientOp ==
    [ op |-> "none", at |-> 0, threw |-> FALSE, error |-> "none", user |-> NoUser,
      hadSession |-> FALSE, afterWipe |-> FALSE, resumed |-> FALSE,
      storedBefore |-> NoSession, response |-> "none",
      dbRead |-> "ok", dbDelete |-> "ok", sent |-> <<>>, input |-> "none" ]

\* the record of the client's latest operation, each operation filling in
\* what is asked about it; afterWipe: the operation before it was a
\* wipeAccount that returned success
ClientOp(op, threw, user) ==
    [ op |-> op, at |-> 0, threw |-> threw, error |-> "none", user |-> user,
      hadSession |-> FALSE,
      afterWipe |-> (client.op = "wipeAccount" /\ ~client.threw),
      resumed |-> FALSE,
      storedBefore |-> NoSession, response |-> "none",
      dbRead |-> "ok", dbDelete |-> "ok", sent |-> <<>>, input |-> "none" ]

\* CAPTCHA tokens and answers; a token the map does not hold maps to
\* NoCaptcha
Tokens == {"token-1", "token-2"}
Solutions == {"abc"}
Answers == {"abc", "ABC", "xyz"}
CAPTCHA_TTL == 5 * 60 * 1000
NoCaptcha == [solution |-> "", createdAt |-> 0, used |-> FALSE, present |-> FALSE]

\* String.prototype.toLowerCase on the answers
toLowerCase(a) == IF a = "ABC" THEN "abc" ELSE a

\* Utils.constantTimeEquals
constantTimeEquals(a, b) == a = b

\* AuthManager.getCaptcha, the server having answered with a token and a
\* solution: the map after it
getCaptcha(tokens, token, solution, t) ==
    [tokens EXCEPT ![token] = [solution |-> solution, createdAt |-> t,
                               used |-> FALSE, present |-> TRUE]]

\* validateCaptcha that does not mark the token
validateCaptchaReusable(tokens, userInput, token, t) ==
    LET captchaData == tokens[token]
    IN  IF ~captchaData.present \/ captchaData.used
           \/ t - captchaData.createdAt > CAPTCHA_TTL
        THEN [valid |-> FALSE, tokens |-> tokens]
        ELSE [valid |-> constantTimeEquals(toLowerCase(userInput),
                                           toLowerCase(captchaData.solution)),
              tokens |-> tokens]

\* AuthManager.validateCaptcha: what it returns and the map after it
validateCaptcha(tokens, userInput, token, t) ==
    LET captchaData == tokens[token]
        isValid == constantTimeEquals(toLowerCase(userInput),
                                      toLowerCase(captchaData.solution))
    IN  IF ~captchaData.present \/ captchaData.used
           \/ t - captchaData.createdAt > CAPTCHA_TTL
        THEN [valid |-> FALSE, tokens |-> tokens]
        ELSE [valid |-> isValid,
              tokens |-> IF isValid THEN [tokens EXCEPT ![token].used = TRUE]
                                    ELSE tokens]

\* ZeroForums0App.state as the constructor leaves it; before the first
\* page load there is no page
NoPage == [currentUser |-> NoUser, isInitialized |-> FALSE]

\* ZeroForums0App.handleBeforeUnload, registered by setupEventListeners: it
\* starts clearSession and does not wait for it
handleBeforeUnload(stored, unloadOut) ==
    IF state.isInitialized /\ state.currentUser # NoUser
    THEN clearSession(stored, unloadOut).sessions
    ELSE stored

\* a page load: the page that was open, if any, is unloaded; then the
\* constructors of ZeroForums0App and AuthManager run, and init(): the
\* app's CryptoManager is initialised and, unless that throws, checkSession
\* runs and the event listeners are set up
AppInit(unloadOut, loadKeysOut, generated, saveKeysOut, loadOut, clearOut, verifyOk) ==
    LET stored == handleBeforeUnload(sessions, unloadOut)
        crypto == initialize(NoKeys, keyStore, loadKeysOut, generated, saveKeysOut)
        checked == checkSession(NoSession, stored, NoKeys, now,
                                loadOut, clearOut, verifyOk)
    IN  /\ authKeys' = NoKeys
        /\ appKeys' = crypto.keys
        /\ pending' = FALSE
        /\ captchaTokens' = [tok \in Tokens |-> NoCaptcha]
        /\ UNCHANGED <<captchaLog, manager, managerOp>>
        /\ keyStore' = crypto.keyStore
        /\ IF crypto.threw
           THEN /\ session' = NoSession
                /\ sessions' = stored
                /\ state' = NoPage
                /\ client' = ClientOp("init", TRUE, NoUser)
           ELSE /\ session' = checked.session
                /\ sessions' = checked.sessions
                /\ state' = [currentUser |-> checked.user, isInitialized |-> TRUE]
                /\ client' = [ClientOp("checkSession", FALSE, checked.user)
                                 EXCEPT !.at = now, !.storedBefore = stored,
                                        !.dbRead = loadOut, !.dbDelete = clearOut]
        /\ UNCHANGED <<now, serverVars>>

\* the steps login and register share once the server has been asked:
\* createSession, this.session = session, saveSession
Authenticate(op, keys, stored, response, user, uuid, signOk, saveOut, sent, input) ==
    LET created == createSession(user, keys, now, uuid, signOk)
        saved == saveSession(sessions, created, saveOut)
    IN  /\ authKeys' = keys
        /\ keyStore' = stored
        /\ IF response # "success" \/ created = NoSession
           THEN /\ client' = [ClientOp(op, TRUE, NoUser)
                                 EXCEPT !.sent = sent, !.input = input]
                /\ UNCHANGED <<session, sessions>>
           ELSE /\ session' = created
                /\ sessions' = saved.sessions
                /\ client' = [ClientOp(op, saved.threw,
                                       IF saved.threw THEN NoUser ELSE user)
                                 EXCEPT !.sent = sent, !.input = input]
        /\ UNCHANGED <<now, serverVars>>

\* AuthManager.register; available: what checkUsernameAvailability
\* returns; captchaValid: what validateCaptcha returns; profileImage: the
\* encrypted image, or NoImage
register(username, available, captchaValid, profileImage, loadKeysOut, generated, saveKeysOut, response, user, uuid, signOk, saveOut) ==
    LET crypto == initialize(authKeys, keyStore, loadKeysOut, generated, saveKeysOut)
        input == [username |-> username, captchaValid |-> captchaValid]
        checked == <<Sent(CheckUsernamePath, "POST", [username |-> username], session)>>
        Fails(sent) ==
            client' = [ClientOp("register", TRUE, NoUser)
                          EXCEPT !.sent = sent, !.input = input]
    IN  IF ~validateUsername(username)
        THEN /\ Fails(<<>>)
             /\ UNCHANGED <<now, serverVars, session, sessions, authKeys, keyStore>>
        ELSE IF ~available \/ ~captchaValid
        THEN /\ Fails(checked)
             /\ UNCHANGED <<now, serverVars, session, sessions, authKeys, keyStore>>
        ELSE IF crypto.threw
        THEN /\ authKeys' = crypto.keys
             /\ keyStore' = crypto.keyStore
             /\ Fails(checked)
             /\ UNCHANGED <<now, serverVars, session, sessions>>
        ELSE Authenticate("register", crypto.keys, crypto.keyStore,
                          response, user, uuid, signOk, saveOut,
                          Append(checked,
                                 Sent(RegisterPath, "POST",
                                      userData(username, crypto.keys, profileImage),
                                      session)),
                          input)

\* the body of the login request
Credentials == [username |-> <<"a", "a", "a">>, captcha |-> "answer", captchaToken |-> "token-1"]

\* AuthManager.login
login(captchaValid, response, user, uuid, signOk, saveOut) ==
    LET input == [username |-> Credentials.username, captchaValid |-> captchaValid]
    IN  IF ~captchaValid
        THEN /\ client' = [ClientOp("login", TRUE, NoUser) EXCEPT !.input = input]
             /\ UNCHANGED <<now, serverVars, session, sessions, authKeys, keyStore>>
        ELSE Authenticate("login", authKeys, keyStore, response, user, uuid, signOk,
                          saveOut, <<Sent(LoginPath, "POST", Credentials, session)>>,
                          input)

\* the request logout notifies the server with, if there is a session
logoutNotice(sess) ==
    IF sess = NoSession THEN <<>>
    ELSE <<Sent(LogoutPath, "POST", [sessionId |-> sess.sessionId], sess)>>

\* logout whose catch block only logs the failed notification
logoutKeepsSession(response, clearOut, clearAgainOut) ==
    LET first == clearSession(sessions, clearOut)
        second == clearSession(first.sessions, clearAgainOut)
        final == IF first.threw THEN second ELSE first
    IN  IF session # NoSession /\ response = "threw"
        THEN /\ client' = [ClientOp("logout", FALSE, NoUser)
                              EXCEPT !.storedBefore = sessions,
                                     !.response = response, !.dbDelete = clearOut,
                                     !.sent = logoutNotice(session)]
             /\ UNCHANGED <<now, serverVars, session, sessions, authKeys, keyStore>>
        ELSE /\ sessions' = final.sessions
             /\ session' = IF final.threw THEN session ELSE NoSession
             /\ client' = [ClientOp("logout", final.threw, NoUser)
                              EXCEPT !.storedBefore = sessions,
                                     !.response = response,
                                     !.sent = logoutNotice(session),
                                     !.dbDelete = IF first.threw
                                                  THEN clearAgainOut ELSE clearOut]
             /\ UNCHANGED <<now, serverVars, authKeys, keyStore>>

\* AuthManager.logout: with a session the server is notified first; when
\* that throws, the catch block clears; otherwise the try block clears and,
\* if clearSession rejects, the catch block clears again
logout(response, clearOut, clearAgainOut) ==
    LET notified == session # NoSession
        caught == notified /\ response = "threw"
        first == clearSession(sessions, clearOut)
        second == clearSession(first.sessions, clearAgainOut)
        final == IF ~caught /\ first.threw THEN second ELSE first
    IN  /\ sessions' = final.sessions
        /\ session' = IF final.threw THEN session ELSE NoSession
        /\ client' = [ClientOp("logout", final.threw, NoUser)
                         EXCEPT !.storedBefore = sessions,
                                !.sent = logoutNotice(session),
                                !.response = IF notified THEN response ELSE "none",
                                !.dbDelete = IF ~caught /\ first.threw
                                             THEN clearAgainOut ELSE clearOut]
        /\ UNCHANGED <<now, serverVars, authKeys, keyStore>>

\* CryptoManager.clearAll: the keys in memory go first, then the stored ones
clearAll(stored, out) ==
    [ threw |-> out # "ok", keys |-> NoKeys,
      keyStore |-> IF out = "ok" THEN NoKey ELSE stored ]

\* AuthManager.clearAllLocalStorage as far as the persisted session goes;
\* it catches what it throws
clearAllLocalStorage(stored, out) == IF out = "ok" THEN NoSession ELSE stored

WIPE_EVERYTHING == "WIPE_EVERYTHING"
Phrases == {WIPE_EVERYTHING, "no"}

\* AuthManager.wipeAccount; confirmation: the answer to its prompt
wipeAccount(confirmation, response, clearAllOut, clearOut, storageOut) ==
    LET keysCleared == clearAll(keyStore, clearAllOut)
        cleared == clearSession(sessions, clearOut)
        wipe == <<Sent(WipePath, "POST",
                       [confirmation |-> WIPE_EVERYTHING, sessionId |-> session.sessionId],
                       session)>>
        Fails(error) ==
            /\ client' = [ClientOp("wipeAccount", TRUE, NoUser)
                             EXCEPT !.error = error, !.response = response,
                                    !.hadSession = session # NoSession,
                                    !.sent = IF session = NoSession
                                                \/ confirmation # WIPE_EVERYTHING
                                             THEN <<>> ELSE wipe]
            /\ UNCHANGED <<now, serverVars, session, sessions, authKeys, keyStore>>
    IN  IF session = NoSession
        THEN Fails("Error: No active session")
        ELSE IF confirmation # WIPE_EVERYTHING
        THEN Fails("Error: Wipe cancelled")
        ELSE IF response = "threw"
        THEN Fails("Error: request failed")
        ELSE IF response # "success"
        THEN Fails("Error: Wipe failed")
        ELSE /\ authKeys' = keysCleared.keys
             /\ keyStore' = keysCleared.keyStore
             /\ IF keysCleared.threw
                THEN /\ client' = [ClientOp("wipeAccount", TRUE, NoUser)
                                      EXCEPT !.error = "Error: Failed to clear cryptographic data",
                                             !.response = response,
                                             !.hadSession = TRUE,
                                             !.sent = wipe]
                     /\ UNCHANGED <<session, sessions>>
                ELSE IF cleared.threw
                THEN /\ client' = [ClientOp("wipeAccount", TRUE, NoUser)
                                      EXCEPT !.error = "transaction error",
                                             !.response = response,
                                             !.hadSession = TRUE,
                                             !.sent = wipe,
                                             !.dbDelete = clearOut]
                     /\ sessions' = cleared.sessions
                     /\ UNCHANGED session
                ELSE /\ client' = [ClientOp("wipeAccount", FALSE, NoUser)
                                      EXCEPT !.response = response,
                                             !.hadSession = TRUE,
                                             !.sent = wipe,
                                             !.dbDelete = IF clearOut = "ok" THEN "ok"
                                                          ELSE storageOut]
                     /\ sessions' = clearAllLocalStorage(cleared.sessions, storageOut)
                     /\ session' = NoSession
             /\ UNCHANGED <<now, serverVars>>

\* ZeroForums0App.handleWipe; it asks for the phrase itself before
\* wipeAccount asks again
handleWipe(confirmation, confirmationAgain, response, clearAllOut, clearOut, storageOut) ==
    /\ state.isInitialized
    /\ IF confirmation = WIPE_EVERYTHING
       THEN /\ wipeAccount(confirmationAgain, response, clearAllOut, clearOut, storageOut)
            /\ state' = IF client'.threw THEN state
                                          ELSE [state EXCEPT !.currentUser = NoUser]
       ELSE /\ client' = ClientOp("handleWipe", FALSE, NoUser)
            /\ UNCHANGED <<now, serverVars, session, sessions, authKeys, keyStore, state>>
    /\ UNCHANGED <<appKeys, pending, captchaTokens, captchaLog, manager, managerOp>>

\* ZeroForums0App.handleRegister, reachable once init has set up the
\* event listeners
handleRegister(username, available, captchaValid, profileImage, loadKeysOut, generated, saveKeysOut, response, user, uuid, signOk, saveOut) ==
    /\ state.isInitialized
    /\ register(username, available, captchaValid, profileImage, loadKeysOut,
                generated, saveKeysOut, response, user, uuid, signOk, saveOut)
    /\ state' = IF client'.threw THEN state ELSE [state EXCEPT !.currentUser = user]
    /\ UNCHANGED <<appKeys, pending, captchaTokens, captchaLog, manager, managerOp>>

\* ZeroForums0App.handleLogin
handleLogin(captchaValid, response, user, uuid, signOk, saveOut) ==
    /\ state.isInitialized
    /\ login(captchaValid, response, user, uuid, signOk, saveOut)
    /\ state' = IF client'.threw THEN state ELSE [state EXCEPT !.currentUser = user]
    /\ UNCHANGED <<appKeys, pending, captchaTokens, captchaLog, manager, managerOp>>

\* AuthManager.login up to the point where it waits for the server, as
\* handleLogin calls it
loginSend(captchaValid) ==
    /\ state.isInitialized
    /\ ~pending
    /\ IF captchaValid
       THEN /\ pending' = TRUE
            /\ client' = [ClientOp("loginSend", FALSE, NoUser)
                             EXCEPT !.sent = <<Sent(LoginPath, "POST", Credentials,
                                                    session)>>]
       ELSE /\ client' = ClientOp("login", TRUE, NoUser)
            /\ UNCHANGED pending
    /\ UNCHANGED <<now, serverVars, session, sessions, authKeys, keyStore, appKeys, state,
                   captchaTokens, captchaLog, manager, managerOp>>

\* AuthManager.login from the server's answer on, and handleLogin after it
loginReceive(response, user, uuid, signOk, saveOut) ==
    LET created == createSession(user, authKeys, now, uuid, signOk)
        saved == saveSession(sessions, created, saveOut)
        threw == response # "success" \/ created = NoSession \/ saved.threw
    IN  /\ pending
        /\ pending' = FALSE
        /\ IF response # "success" \/ created = NoSession
           THEN UNCHANGED <<session, sessions>>
           ELSE /\ session' = created
                /\ sessions' = saved.sessions
        /\ client' = [ClientOp("login", threw, IF threw THEN NoUser ELSE user)
                         EXCEPT !.resumed = TRUE, !.storedBefore = sessions,
                                !.response = response]
        /\ state' = IF threw THEN state ELSE [state EXCEPT !.currentUser = user]
        /\ UNCHANGED <<now, serverVars, authKeys, keyStore, appKeys,
                       captchaTokens, captchaLog, manager, managerOp>>

\* ZeroForums0App.handleLogout
handleLogout(response, clearOut, clearAgainOut) ==
    /\ state.isInitialized
    /\ logout(response, clearOut, clearAgainOut)
    /\ state' = IF client'.threw THEN state ELSE [state EXCEPT !.currentUser = NoUser]
    /\ UNCHANGED <<appKeys, pending, captchaTokens, captchaLog, manager, managerOp>>

\* AuthManager.updateAvatar, as handleAvatarChange calls it; encryptOk:
\* encryptProfileImage returned
updateAvatar(file, encryptOk, sharedSecret, iv, salt, response, saveOut) ==
    LET avatar == encryptProfileImage(file, sharedSecret, iv, salt)
        request == <<Sent(AvatarPath, "POST",
                          [avatar |-> avatar, sessionId |-> session.sessionId],
                          session)>>
        saved == saveSession(sessions, session, saveOut)
    IN  /\ state.isInitialized
        /\ IF session = NoSession \/ ~encryptOk
           THEN /\ client' = ClientOp("updateAvatar", TRUE, NoUser)
                /\ UNCHANGED sessions
           ELSE IF response # "success"
           THEN /\ client' = [ClientOp("updateAvatar", TRUE, NoUser)
                                 EXCEPT !.sent = request]
                /\ UNCHANGED sessions
           ELSE /\ client' = [ClientOp("updateAvatar", saved.threw, NoUser)
                                 EXCEPT !.sent = request]
                /\ sessions' = saved.sessions
        /\ UNCHANGED <<now, serverVars, session, authKeys, keyStore, appKeys, pending,
                       captchaTokens, captchaLog, state, manager, managerOp>>

----------------------------------------------------------------------------
(* CryptoManager used on its own: initialize, signData, clearAll,          *)
(* encryptMessage and decryptMessage as a caller may run them in any       *)
(* order.                                                                  *)

\* new CryptoManager()
NewCryptoManager == [keys |-> NoKeys, isInitialized |-> FALSE]

NoManagerOp ==
    [ op |-> "none", threw |-> FALSE, loaded |-> FALSE,
      message |-> <<>>, sharedSecret |-> "none", conversationId |-> <<>>,
      envelope |-> NoEnvelope,
      usedSecret |-> "none", usedContext |-> <<>>, result |-> <<>> ]

ManagerOp(op, threw) == [NoManagerOp EXCEPT !.op = op, !.threw = threw]

\* the page is loaded again: a new CryptoManager, the key store kept
ManagerRestart ==
    /\ manager' = NewCryptoManager
    /\ managerOp' = ManagerOp("constructor", FALSE)
    /\ UNCHANGED <<now, serverVars, session, sessions, authKeys, keyStore, appKeys,
                   pending, captchaTokens, captchaLog, state, client>>

\* CryptoManager.initialize on the manager
ManagerInitialize(loadOut, generated, saveOut) ==
    LET done == initialize(manager.keys, keyStore, loadOut, generated, saveOut)
    IN  /\ manager' = [ keys |-> done.keys,
                        isInitialized |-> manager.isInitialized \/ ~done.threw ]
        /\ keyStore' = done.keyStore
        /\ managerOp' = [ManagerOp("initialize", done.threw)
                            EXCEPT !.loaded = ~done.threw /\ done.keyStore = keyStore]
        /\ UNCHANGED <<now, serverVars, session, sessions, authKeys, appKeys, pending,
                       captchaTokens, captchaLog, state, client>>

\* CryptoManager.signData on the manager
ManagerSignData(data, signOk) ==
    /\ managerOp' = ManagerOp("signData", signData(manager.keys, data, signOk) = NoSignature)
    /\ UNCHANGED <<now, serverVars, session, sessions, authKeys, keyStore, appKeys,
                   pending, captchaTokens, captchaLog, state, client, manager>>

\* CryptoManager.clearAll on the manager
ManagerClearAll(out) ==
    LET cleared == clearAll(keyStore, out)
    IN  /\ manager' = [manager EXCEPT !.keys = cleared.keys]
        /\ keyStore' = cleared.keyStore
        /\ managerOp' = ManagerOp("clearAll", cleared.threw)
        /\ UNCHANGED <<now, serverVars, session, sessions, authKeys, appKeys, pending,
                       captchaTokens, captchaLog, state, client>>

\* CryptoManager.encryptMessage on the manager
ManagerEncryptMessage(message, sharedSecret, conversationId, iv, salt) ==
    LET envelope == encryptMessage(manager.isInitialized, message, sharedSecret,
                                   conversationId, iv, salt)
    IN  /\ managerOp' = [ManagerOp("encryptMessage", envelope = NoEnvelope)
                            EXCEPT !.message = message,
                                   !.sharedSecret = sharedSecret,
                                   !.conversationId = conversationId,
                                   !.envelope = envelope]
        /\ UNCHANGED <<now, serverVars, session, sessions, authKeys, keyStore, appKeys,
                       pending, captchaTokens, captchaLog, state, client, manager>>

\* CryptoManager.decryptMessage on the envelope encryptMessage returned last
ManagerDecryptMessage(sharedSecret, conversationId) ==
    /\ managerOp.envelope # NoEnvelope
    /\ LET decrypted == decryptMessage(manager.isInitialized, managerOp.envelope,
                                       sharedSecret, conversationId)
       IN  managerOp' = [managerOp EXCEPT !.op = "decryptMessage",
                                          !.threw = decrypted.threw,
                                          !.usedSecret = sharedSecret,
                                          !.usedContext = conversationId,
                                          !.result = decrypted.message]
    /\ UNCHANGED <<now, serverVars, session, sessions, authKeys, keyStore, appKeys,
                   pending, captchaTokens, captchaLog, state, client, manager>>

----------------------------------------------------------------------------
(* The state after construction *)

IPs == {"ip-1", "ip-2"}
ClientKeys == {<<ip, "unknown", "unknown">> : ip \in IPs}

Init ==
    /\ now = 0
    /\ rateLimitMap = [k \in ClientKeys |-> <<>>]
    /\ loginAttempts = [k \in ClientKeys |-> <<>>]
    /\ last = NoLast
    /\ passedNonces = {}
    /\ issued = {}
    /\ failLog = [k \in ClientKeys |-> <<>>]
    /\ accepted = [k \in ClientKeys |-> <<>>]
    /\ nHandled = 0
    /\ session = NoSession
    /\ sessions = NoSession
    /\ authKeys = NoKeys
    /\ keyStore = NoKey
    /\ appKeys = NoKeys
    /\ pending = FALSE
    /\ captchaTokens = [tok \in Tokens |-> NoCaptcha]
    /\ captchaLog = [issued |-> {}, validated |-> {}]
    /\ state = NoPage
    /\ client = NoClientOp
    /\ manager = NewCryptoManager
    /\ managerOp = NoManagerOp

----------------------------------------------------------------------------
(* SpecRate: one client sends well-formed requests while the clock moves   *)
(* in steps of half a rate-limit window.                                   *)

RateStep == RATE_LIMIT_WINDOW \div 2

RateRequests(t) ==
    {makeSecureRequest("ip-1", HealthPath, "GET", NoBody, t, "nonce-1", Absent)}

RateRequest ==
    /\ \E req \in RateRequests(now) : HandleRequest(req, TRUE, "uuid-1")
    /\ UNCHANGED nHandled

RateTick == Tick(RateStep, MaxRateTicks * RateStep)

RateCleanup == cleanupExpiredData

NextRate == RateRequest \/ RateTick \/ RateCleanup

SpecRate == Init /\ [][NextRate]_vars

\* C1: no client key has more than 100 requests younger than 60 seconds that
\* passed the rate limiter; a request that reaches the rate limiter while 100
\* such requests of its key exist is rejected with RATE_LIMIT_EXCEEDED, and
\* one that reaches it while fewer exist is not rejected by the rate limiter.
RateLimitHolds ==
    /\ \A k \in ClientKeys : Len(Young(accepted[k], now)) <= 100
    /\ (last.stage \notin {"none", "parse"}) =>
          /\ (last.youngBefore >= 100) =>
                /\ last.err = SecurityError("Rate limit exceeded", "RATE_LIMIT_EXCEEDED")
                /\ last.status = 400
          /\ (last.youngBefore < 100) => last.err.code # "RATE_LIMIT_EXCEEDED"

\* the 101st request inside a window has been rejected, after a window in
\* which the 100th was accepted
RateLimitWitness ==
    /\ last.youngBefore = 100
    /\ last.err.code = "RATE_LIMIT_EXCEEDED"
    /\ last.at > 0

----------------------------------------------------------------------------
(* SpecServer: clients and attackers send requests of every shape, failed  *)
(* logins are recorded, and the clock moves in steps of a day.             *)

\* honest requests signed by makeSecureRequest at time t
SignedRequests(t) ==
    {makeSecureRequest("ip-1", path, method, NoBody, t, "nonce-1", tok) :
        path \in {LoginPath, HealthPath, LogoutPath, ConversationsPath, CheckUsernamePath},
        method \in {"GET", "POST"},
        tok \in {Absent, BadToken} \cup UUIDs}
    \cup {makeSecureRequest("ip-2", LoginPath, "POST", "body-1", t, "nonce-2", Absent),
          makeSecureRequest("ip-2", RegisterPath, "POST", "body-1", t, "nonce-2", Absent)}

\* a signed request changed on its way, or built by hand
ForgedRequests(t) ==
    LET r == makeSecureRequest("ip-1", LoginPath, "POST", "body-1", t, "nonce-2", Absent)
    IN  { [r EXCEPT !.contentType = Absent],
          [r EXCEPT !.xTimestamp = NoTsHeader],
          [r EXCEPT !.xTimestamp = TsHeader(FALSE, 0, TRUE)],
          [r EXCEPT !.xTimestamp = TsHeader(TRUE, t, TRUE)],
          makeSecureRequest("ip-1", LoginPath, "POST", "body-1", t - TIMESTAMP_SKEW,
                            "nonce-2", Absent),
          makeSecureRequest("ip-1", LoginPath, "POST", "body-1", t - TIMESTAMP_SKEW - 1,
                            "nonce-2", Absent),
          makeSecureRequest("ip-1", LoginPath, "POST", "body-1", t + TIMESTAMP_SKEW + 1,
                            "nonce-2", Absent),
          [r EXCEPT !.xNonce = Absent],
          [r EXCEPT !.xSignature = NoSig],
          [r EXCEPT !.xSignature = GarbageSig],
          [r EXCEPT !.xSignature = generateHMAC(r.xSignature.data, "guessed")],
          [r EXCEPT !.body = "body-2"],
          [r EXCEPT !.body = MalformedBody] }

ServerRequests(t) == SignedRequests(t) \cup ForgedRequests(t)

ServerRequest ==
    /\ nHandled < MaxHandled
    /\ \E req \in ServerRequests(now), handlerOk \in BOOLEAN, sid \in {"uuid-1"} :
          HandleRequest(req, handlerOk, sid)
    /\ nHandled' = nHandled + 1

ServerRecordFailure ==
    LET req == makeSecureRequest("ip-1", LoginPath, "POST", "body-1", now, "nonce-1", Absent)
    IN  /\ Len(loginAttempts[getClientKey(parseAndValidateRequest(req))]) < MaxRecorded
        /\ recordLoginAttempt(req, FALSE)

ServerTick == Tick(SESSION_TIMEOUT, MaxTicks * SESSION_TIMEOUT)

ServerCleanup == cleanupExpiredData

NextServer == ServerRequest \/ ServerRecordFailure \/ ServerTick \/ ServerCleanup

SpecServer == Init /\ [][NextServer]_vars

----------------------------------------------------------------------------
(* SpecLockout: one client tries to log in, attempts are recorded, and the *)
(* clock moves in steps of half a day.                                     *)

LockStep == LOCKOUT_BASE_DURATION \div 2

LoginRequest(t) == makeSecureRequest("ip-1", LoginPath, "POST", "body-1", t, "nonce-1", Absent)

LockRequest ==
    /\ nHandled < MaxHandled
    /\ HandleRequest(LoginRequest(now), FALSE, "uuid-1")
    /\ nHandled' = nHandled + 1

LockRecord ==
    /\ Len(loginAttempts[getClientKey(parseAndValidateRequest(LoginRequest(now)))])
          < MaxLockRecorded
    /\ \E success \in BOOLEAN : recordLoginAttempt(LoginRequest(now), success)

LockTick == Tick(LockStep, MaxLockTicks * LockStep)

LockCleanup == cleanupExpiredData

NextLockout == LockRequest \/ LockRecord \/ LockTick \/ LockCleanup

SpecLockout == Init /\ [][NextLockout]_vars

----------------------------------------------------------------------------
(* SpecPipeline: one client sends requests that fail at each stage of      *)
(* handleRequest, in any number; failed logins are recorded on the first   *)
(* day, and the clock moves in steps of a day.                             *)

PipelineRequests(t) ==
    LET r == makeSecureRequest("ip-1", LoginPath, "POST", "body-1", t, "nonce-1", Absent)
    IN  { r,
          [r EXCEPT !.xNonce = Absent],
          [r EXCEPT !.xSignature = GarbageSig],
          makeSecureRequest("ip-1", LoginPath, "GET", NoBody, t, "nonce-1", Absent),
          makeSecureRequest("ip-1", LogoutPath, "POST", NoBody, t, "nonce-1", Absent),
          makeSecureRequest("ip-1", LogoutPath, "POST", NoBody, t, "nonce-1", "uuid-1") }

PipelineRequest ==
    /\ \E req \in PipelineRequests(now) : HandleRequest(req, FALSE, "uuid-1")
    /\ UNCHANGED nHandled

PipelineRecordFailure ==
    /\ now = 0
    /\ Len(loginAttempts[getClientKey(parseAndValidateRequest(LoginRequest(now)))])
          < MaxRecorded
    /\ recordLoginAttempt(LoginRequest(now), FALSE)

PipelineTick == Tick(LOCKOUT_BASE_DURATION, MaxPipelineTicks * LOCKOUT_BASE_DURATION)

NextPipeline == PipelineRequest \/ PipelineRecordFailure \/ PipelineTick

SpecPipeline == Init /\ [][NextPipeline]_vars

----------------------------------------------------------------------------
(* Claims about the request pipeline *)

\* the request's x-timestamp header, as parsed, is a time within 5 minutes
\* of the time t at which the request is handled
TimestampFresh(req, t) ==
    /\ ~parseInt(req.xTimestamp).nan
    /\ Abs(t - parseInt(req.xTimestamp).val) <= 5 * 60 * 1000

\* the last request got past parseAndValidateRequest
Parsed == last.stage \in {"validate", "route"}

\* the last request got past validateRequest, so routeRequest was invoked
ReachedRoute == last.stage = "route"

\* C2: a request whose nonce already passed validation, and whose timestamp
\* is inside the freshness window, does not reach routeRequest.
NonceValidatesOnce ==
    (last.replay /\ TimestampFresh(last.req, last.at)) => ~ReachedRoute

\* the signature makeSecureRequest computes for the content of req
ExpectedSignature(req) ==
    generateHMAC(RequestData(req.method, req.path, req.body,
                             parseInt(req.xTimestamp).val, req.xNonce),
                 SigningSecret(req.xSessionToken))

\* the last request got past validateSignature
PassedSignature ==
    /\ Parsed
    /\ last.err.code \notin {"RATE_LIMIT_EXCEEDED", "MISSING_SIGNATURE", "INVALID_SIGNATURE"}

\* C3: a request gets past validateSignature only if its signature is the
\* HMAC of its content (method, path, body, timestamp, nonce) under the
\* expected secret; a body changed after signing makes validation fail.
SignatureIntegrity ==
    PassedSignature => last.req.xSignature = ExpectedSignature(last.req)

\* C6: a request to a path that requires authentication reaches routeRequest
\* only if its session token is the id of a session created after a
\* successful login or registration and not yet expired.
SessionIssuedAndLive ==
    (ReachedRoute /\ last.req.path \notin {RegisterPath, LoginPath, CaptchaPath, HealthPath})
        => \E s \in issued : /\ s.id = last.req.xSessionToken
                             /\ last.at < s.expiresAt

\* C7: an accepted request has a timestamp within 5 minutes of the current
\* time, and a request whose x-timestamp header is no such time (not a
\* number included) is rejected with ValidationError.
TimestampChecked ==
    (last.stage # "none") =>
        /\ Parsed => TimestampFresh(last.req, last.at)
        /\ ~TimestampFresh(last.req, last.at) =>
              /\ last.stage = "parse"
              /\ last.err.name = "ValidationError"

\* C8: a request without a signature is rejected with SecurityError
\* MISSING_SIGNATURE, one with a malformed signature with SecurityError
\* INVALID_SIGNATURE.
SignatureErrorCodes ==
    (last.stage # "none") =>
        /\ (last.req.xSignature.kind = "absent") =>
              /\ last.err.name = "SecurityError"
              /\ last.err.code = "MISSING_SIGNATURE"
        /\ (last.req.xSignature.kind = "garbage") =>
              /\ last.err.name = "SecurityError"
              /\ last.err.code = "INVALID_SIGNATURE"

\* the last request was a login request that reached validateBruteForce
\* with exactly n failed attempts recorded for its client key, all of them
\* within 24 hours of each other
LoginAfterFailures(n) ==
    /\ last.req.path = "/api/auth/login"
    /\ Parsed
    /\ last.err.code \notin {"RATE_LIMIT_EXCEEDED", "MISSING_SIGNATURE", "INVALID_SIGNATURE"}
    /\ Len(last.failuresBefore) = n
    /\ n >= 3
    /\ last.failuresBefore[n] - last.failuresBefore[1] < 24 * 60 * 60 * 1000

LockedOutError ==
    AuthenticationError("Account temporarily locked due to too many failed login attempts")

\* C4: with 3 failed attempts recorded for a client key within 24 hours, a
\* login request of that key before the last failure + 24h is rejected with
\* AuthenticationError, and one after that time is not rejected by the
\* brute-force check.
LockoutAfterThree ==
    LoginAfterFailures(3) =>
        LET expiry == last.failuresBefore[3] + 24 * 60 * 60 * 1000
        IN  /\ (last.at < expiry) => last.err = LockedOutError
            /\ (last.at > expiry) => last.err # LockedOutError

\* C5: with n >= 3 failed attempts recorded, login requests are rejected with
\* AuthenticationError until the last failure + 24h * 3^(n-3); with 4
\* failures that is 72 hours after the last failure.  (Stated for the
\* escalated lockouts, n >= 4; n = 3 is LockoutAfterThree.)
LockoutEscalates ==
    \A n \in 4..MaxLockRecorded :
        LoginAfterFailures(n) =>
            ((last.at < last.failuresBefore[n] + Pow(3, n - 3) * 24 * 60 * 60 * 1000)
                => last.err = LockedOutError)

\* the checks handleRequest runs on a request that fails none of them
FullOrder(req) ==
    <<"parse", "rateLimit", "signature", "bruteForce">>
        \o (IF req.path \in {"/api/auth/register", "/api/auth/login",
                             "/api/auth/captcha", "/api/health"}
            THEN <<>> ELSE <<"session">>)
        \o <<"route">>

IsPrefix(a, b) ==
    /\ Len(a) <= Len(b)
    /\ \A i \in 1..Len(a) : a[i] = b[i]

\* the last request meets the condition of check c, read off the request
\* and the history
Meets(c) ==
    LET req == last.req
        recentFailures == SelectSeq(last.failuresBefore,
                                    LAMBDA f : last.at - f < 24 * 60 * 60 * 1000)
    IN  CASE c = "parse" ->
               /\ req.contentType # Absent
               /\ req.xTimestamp # NoTsHeader
               /\ req.xNonce # Absent
               /\ req.xSignature.kind # "absent"
               /\ req.body # MalformedBody
               /\ req.xTimestamp.digits =>
                     Abs(last.at - req.xTimestamp.val) <= 5 * 60 * 1000
          [] c = "rateLimit" -> last.youngBefore < 100
          [] c = "signature" -> req.xSignature.kind = "hmac"
          [] c = "bruteForce" ->
               req.path = "/api/auth/login" => Len(recentFailures) < 3
          [] c = "session" -> req.xSessionToken \in UUIDs
          [] c = "route" -> last.handler # "none"

\* C9: the checks run in the order parse, rate limit, signature, brute
\* force, session (non-public paths), route; routeRequest is invoked only
\* after all of them succeeded; the first failing check ends the request
\* with a non-success response and nothing runs after it.
PipelineOrder ==
    (last.stage # "none") =>
        /\ last.checks # <<>>
        /\ IsPrefix(last.checks, FullOrder(last.req))
        /\ \A i \in 1..(Len(last.checks) - 1) : Meets(last.checks[i])
        /\ (last.err = NoError) =>
              /\ last.checks = FullOrder(last.req)
              /\ Meets("route")
              /\ last.status = 200
        /\ (last.err # NoError) =>
              /\ ~Meets(last.checks[Len(last.checks)])
              /\ last.handler = "none"
              /\ last.status = 400
        /\ (last.handler # "none") => last.err = NoError

\* the rate limiter has rejected a request whose signature is malformed:
\* the signature check, which would have failed too, did not run
PipelineWitness ==
    /\ last.err.code = "RATE_LIMIT_EXCEEDED"
    /\ last.req.xSignature.kind = "garbage"
    /\ last.checks = <<"parse", "rateLimit">>

----------------------------------------------------------------------------
(* SpecClient: one device; pages load, the user registers, logs in and     *)
(* out, and the clock moves in steps of half a session lifetime.           *)

ClientStep == SESSION_TTL \div 2

\* The outcomes CryptoManager.initialize can meet: of the outcomes that
\* end an operation the same way one is kept, an operation the code does
\* not reach has the outcome "ok", and a generated key pair is a fresh one
FreshKey(stored) == CHOOSE k \in KeyIds : k # stored

KeyOutcomes(stored) ==
    { o \in DbOutcomes \X {FreshKey(stored), NoKey} \X {"ok", "tx_failed"} :
        LET generates == o[1] = "open_failed" \/ (o[1] = "ok" /\ stored = NoKey)
        IN  /\ ~generates => o[2] = NoKey
            /\ (o[2] = NoKey) => o[3] = "ok" }

\* the outcomes checkSession can meet; without keys no signature verifies
CheckOutcomes(stored, t) ==
    { o \in {"ok", "open_failed"} \X {"ok", "open_failed"} \X {TRUE} :
        LET loaded == o[1] = "ok" /\ stored # NoSession
        IN  ~loaded => o[2] = "ok" }

\* the outcomes the steps after the server request can meet
SessionOutcomes ==
    { o \in Responses \X BOOLEAN \X {"ok", "tx_failed"} :
        /\ (o[1] # "success") => o[2]
        /\ (o[1] # "success" \/ ~o[2]) => o[3] = "ok" }

\* the outcomes of the clearSession that an unloading page starts
UnloadOutcomes ==
    IF state.isInitialized /\ state.currentUser # NoUser
    THEN {"ok", "open_failed"} ELSE {"ok"}

\* Utils.generateUUID, one value standing for the fresh ones
SessionIds == {"uuid-1"}

ClientAppInit ==
    \E unloadOut \in UnloadOutcomes :
    \E k \in KeyOutcomes(keyStore) :
    \E c \in CheckOutcomes(handleBeforeUnload(sessions, unloadOut), now) :
        AppInit(unloadOut, k[1], k[2], k[3], c[1], c[2], c[3])

ClientRegister ==
    \/ \E user \in Users, uuid \in SessionIds :
          handleRegister(Repeated("a", 2), TRUE, TRUE, NoImage,
                         "ok", NoKey, "ok", "success", user, uuid, TRUE, "ok")
    \/ \E k \in KeyOutcomes(keyStore), o \in SessionOutcomes,
          user \in Users, uuid \in SessionIds :
          handleRegister(Repeated("a", 3), TRUE, TRUE, NoImage,
                         k[1], k[2], k[3], o[1], user, uuid, o[2], o[3])

ClientLogin ==
    \/ \E user \in Users, uuid \in SessionIds :
          handleLogin(FALSE, "success", user, uuid, TRUE, "ok")
    \/ \E o \in SessionOutcomes, user \in Users, uuid \in SessionIds :
          handleLogin(TRUE, o[1], user, uuid, o[2], o[3])

\* the outcomes logout can meet
LogoutOutcomes ==
    { o \in Responses \X DbOutcomes \X DbOutcomes :
        /\ (session = NoSession) => o[1] = "success"
        /\ (o[2] # "tx_failed" \/ (session # NoSession /\ o[1] = "threw")) => o[3] = "ok" }

ClientLogout ==
    \E o \in LogoutOutcomes : handleLogout(o[1], o[2], o[3])

ClientTick == Tick(ClientStep, MaxClientTicks * ClientStep)

NextClient == ClientAppInit \/ ClientRegister \/ ClientLogin \/ ClientLogout \/ ClientTick

SpecClient == Init /\ [][NextClient]_vars

\* checkSession has just run on a persisted session whose expiresAt lies
\* in the past
ExpiredAtCheck ==
    /\ client.op = "checkSession"
    /\ client.storedBefore # NoSession
    /\ client.storedBefore.expiresAt < client.at

\* C10 as stated: when the persisted session's expiresAt lies in the past,
\* checkSession returns no user, leaves the in-memory session unset, and
\* deletes the persisted session record.
ExpiredSessionDeleted ==
    ExpiredAtCheck =>
        /\ client.user = NoUser
        /\ session = NoSession
        /\ sessions = NoSession

\* C10, amended: when the persisted session's expiresAt lies in the past
\* and checkSession could read it, checkSession returns no user and leaves
\* the in-memory session unset; the persisted record is deleted if the
\* delete it issues succeeds, and stays as it was if the database cannot be
\* opened or the delete transaction fails.
ExpiredSessionRejected ==
    (ExpiredAtCheck /\ client.dbRead = "ok") =>
        /\ client.user = NoUser
        /\ session = NoSession
        /\ sessions = IF client.dbDelete = "ok" THEN NoSession ELSE client.storedBefore

\* an expired persisted session has been read, rejected and deleted
ExpiredSessionWitness ==
    /\ ExpiredAtCheck
    /\ client.dbRead = "ok"
    /\ client.dbDelete = "ok"
    /\ client.user = NoUser
    /\ sessions = NoSession

----------------------------------------------------------------------------
(* Session validity *)

\* the persisted record with one of the signed fields changed and the
\* signature kept
Tampered(s) ==
    { [s EXCEPT !.sessionId = "uuid-2"],
      [s EXCEPT !.userId = "user-2"],
      [s EXCEPT !.expiresAt = @ + SESSION_TTL] } \ {s}

\* the signature of s is the one createSession made over its fields with
\* the key pair the manager holds
SignatureVerifies(s, keys) ==
    /\ s.signature.data = <<s.sessionId, s.userId, s.expiresAt>>
    /\ s.signature.key = keys.id

\* C11: in every state, checkSession accepts the persisted session only
\* when now < expiresAt and its signature verifies, isAuthenticated accepts
\* the in-memory session only when now < expiresAt, and checkSession
\* rejects and clears a persisted session whose sessionId, userId or
\* expiresAt differs from the signed values.
SessionValidOnlyBeforeExpiry ==
    /\ \A verifyOk \in BOOLEAN :
          LET c == checkSession(session, sessions, authKeys, now, "ok", "ok", verifyOk)
          IN  (c.user # NoUser) =>
                 /\ now < sessions.expiresAt
                 /\ SignatureVerifies(sessions, authKeys)
    /\ isAuthenticated(session, now) => now < session.expiresAt
    /\ (sessions # NoSession) =>
          \A s \in Tampered(sessions), verifyOk \in BOOLEAN :
             LET c == checkSession(session, s, authKeys, now, "ok", "ok", verifyOk)
             IN  c.user = NoUser /\ c.sessions = NoSession

\* init() has just run checkSession on a persisted session that it could
\* read, that has not expired and that is as createSession signed it
UnexpiredAtCheck ==
    /\ client.op = "checkSession"
    /\ client.dbRead = "ok"
    /\ client.storedBefore # NoSession
    /\ client.at < client.storedBefore.expiresAt
    /\ client.storedBefore.signature.data = SignedFields(client.storedBefore)

\* C12: a session created and persisted by a successful login or
\* registration that is unexpired and unmodified at the next app start is
\* restored by checkSession: it returns the session's user, sets the
\* in-memory session and does not delete the persisted record.
SessionRestored ==
    UnexpiredAtCheck =>
        /\ client.user = client.storedBefore.userId
        /\ session = client.storedBefore
        /\ sessions = client.storedBefore

----------------------------------------------------------------------------
(* Logout *)

\* C13 as stated: whatever the outcome of the server notification, after
\* logout() returns the in-memory session is null and the persisted
\* session record has been deleted, and logout does not throw because of
\* the network outcome.
LogoutClearsEverything ==
    (client.op = "logout") =>
        /\ ~client.threw => (session = NoSession /\ sessions = NoSession)
        /\ client.threw => client.dbDelete # "ok"

\* C13, amended: whatever the outcome of the server notification, after
\* logout() returns the in-memory session is null, and the persisted
\* session record has been deleted if the delete it issued succeeded (it
\* stays when the database cannot be opened); logout throws only when the
\* delete transaction fails, never because of the network outcome.
LogoutClearsSession ==
    (client.op = "logout") =>
        /\ ~client.threw =>
              /\ session = NoSession
              /\ client.dbDelete # "tx_failed"
              /\ (client.dbDelete = "ok") => sessions = NoSession
              /\ (client.dbDelete = "open_failed") => sessions = client.storedBefore
        /\ client.threw => client.dbDelete = "tx_failed"

\* a user with a persisted session has logged out: the notification
\* failed, logout returned, and both copies of the session are gone
LogoutWitness ==
    /\ client.op = "logout"
    /\ client.response = "failure"
    /\ ~client.threw
    /\ client.storedBefore # NoSession
    /\ state.currentUser = NoUser
    /\ session = NoSession
    /\ sessions = NoSession

----------------------------------------------------------------------------
(* SpecWipe: a page is loaded, a user registers, logs in and wipes the     *)
(* account; a login may be waiting for the server while the wipe runs.     *)
(* The clock stands still, and the database fails only where wipeAccount   *)
(* and CryptoManager.initialize use it.                                    *)

WipeAppInit ==
    \E k \in KeyOutcomes(keyStore) :
        AppInit("ok", k[1], k[2], k[3], "ok", "ok", TRUE)

WipeRegister ==
    \E k \in KeyOutcomes(keyStore), user \in Users, uuid \in SessionIds :
        handleRegister(Repeated("a", 3), TRUE, TRUE, NoImage,
                       k[1], k[2], k[3], "success", user, uuid, TRUE, "ok")

WipeLoginSend == \E captchaValid \in BOOLEAN : loginSend(captchaValid)

WipeLoginReceive ==
    \E o \in SessionOutcomes, user \in Users, uuid \in SessionIds :
        loginReceive(o[1], user, uuid, o[2], o[3])

\* the outcomes wipeAccount can meet
WipeOutcomes ==
    { o \in Phrases \X Responses \X DbOutcomes \X DbOutcomes \X DbOutcomes :
        LET asks == session # NoSession
            sends == asks /\ o[1] = WIPE_EVERYTHING
            clears == sends /\ o[2] = "success"
        IN  /\ ~asks => o[1] = WIPE_EVERYTHING
            /\ ~sends => o[2] = "success"
            /\ ~clears => o[3] = "ok"
            /\ (~clears \/ o[3] # "ok") => o[4] = "ok"
            /\ (~clears \/ o[3] # "ok" \/ o[4] # "open_failed") => o[5] = "ok" }

WipeAccount ==
    \/ handleWipe("no", WIPE_EVERYTHING, "success", "ok", "ok", "ok")
    \/ \E o \in WipeOutcomes :
          handleWipe(WIPE_EVERYTHING, o[1], o[2], o[3], o[4], o[5])

NextWipe ==
    \/ WipeAppInit \/ WipeRegister \/ WipeLoginSend \/ WipeLoginReceive
    \/ WipeAccount

SpecWipe == Init /\ [][NextWipe]_vars

\* wipeAccount has just run with an active session and the right phrase
ConfirmedWipe ==
    /\ client.op = "wipeAccount"
    /\ client.hadSession
    /\ client.error # "Error: Wipe cancelled"

\* C14: a wipeAccount that ran with an active session and the right phrase
\* has cleared the local keys, the session in memory and the persisted one,
\* and the page shows no user, whatever became of the server request
WipeClearsLocally ==
    ConfirmedWipe =>
        /\ authKeys = NoKeys
        /\ keyStore = NoKey
        /\ session = NoSession
        /\ sessions = NoSession
        /\ state.currentUser = NoUser

\* C15: a wipeAccount called directly after one that succeeded finds no
\* session, fails with 'No active session' and changes nothing, and no key
\* material is left: not in the key store, not in the AuthManager's
\* CryptoManager and not in the app's
SecondWipeHarmless ==
    (client.op = "wipeAccount" /\ client.afterWipe) =>
        /\ ~client.hadSession
        /\ client.threw
        /\ client.error = "Error: No active session"
        /\ session = NoSession
        /\ state.currentUser = NoUser
        /\ keyStore = NoKey
        /\ authKeys = NoKeys
        /\ appKeys = NoKeys

\* a login that waited for the server while a wipeAccount ran and returned
\* success has just resumed
ResumedAfterWipe ==
    /\ client.op = "login"
    /\ client.resumed
    /\ client.afterWipe

----------------------------------------------------------------------------
(* SpecCaptcha: the page asks the server for CAPTCHA challenges and        *)
(* validates answers, as login and register do first, while the clock      *)
(* moves in steps of half a token's lifetime; the page may be reloaded.    *)
(* The server issues every token once.                                     *)

MaxCaptchaTicks == 3
CaptchaStep == CAPTCHA_TTL \div 2

\* AuthManager.getCaptcha, the server answering with a token and its solution
CaptchaReceived(token, solution) ==
        /\ state.isInitialized
        /\ captchaTokens' = getCaptcha(captchaTokens, token, solution, now)
        /\ captchaLog' = [captchaLog EXCEPT !.issued = @ \cup {token}]
        /\ client' = [ClientOp("getCaptcha", FALSE, NoUser)
                         EXCEPT !.sent = <<Sent(CaptchaPath, "GET", <<>>, session)>>]
        /\ UNCHANGED <<now, serverVars, session, sessions, authKeys, keyStore,
                       appKeys, pending, state, manager, managerOp>>

CaptchaGet ==
    \E token \in Tokens \ captchaLog.issued, solution \in Solutions :
        CaptchaReceived(token, solution)

CaptchaValidate ==
    \E userInput \in Answers, token \in Tokens :
        LET v == validateCaptcha(captchaTokens, userInput, token, now)
        IN  /\ state.isInitialized
            /\ captchaTokens' = v.tokens
            /\ captchaLog' = IF v.valid
                             THEN [captchaLog EXCEPT !.validated = @ \cup {token}]
                             ELSE captchaLog
            /\ client' = [ClientOp("validateCaptcha", FALSE, NoUser)
                             EXCEPT !.response = IF v.valid THEN "valid" ELSE "invalid"]
            /\ UNCHANGED <<now, serverVars, session, sessions, authKeys, keyStore,
                           appKeys, pending, state, manager, managerOp>>

CaptchaAppInit == AppInit("ok", "ok", FreshKey(keyStore), "ok", "ok", "ok", TRUE)

CaptchaTick == Tick(CaptchaStep, MaxCaptchaTicks * CaptchaStep)

NextCaptcha == CaptchaAppInit \/ CaptchaGet \/ CaptchaValidate \/ CaptchaTick

SpecCaptcha == Init /\ [][NextCaptcha]_vars

----------------------------------------------------------------------------
(* SpecLogin: two clients send login requests, which AuthHandler.login     *)
(* answers with success or failure, and the first of them also asks for    *)
(* a CAPTCHA, while the clock moves in steps of half a day and the         *)
(* cleanup sweep may run.                                                  *)

MaxLoginRecorded == 3
MaxLoginTicks == 1

LoginRequests(t) ==
    { makeSecureRequest(ip, LoginPath, "POST", "body-1", t, "nonce-1", Absent) :
        ip \in IPs }
    \cup { makeSecureRequest("ip-1", CaptchaPath, "GET", NoBody, t, "nonce-1", Absent) }

\* the number of attempts on record, over all client keys
RECURSIVE TotalRecorded(_, _)
TotalRecorded(attempts, keys) ==
    IF keys = {} THEN 0
    ELSE LET k == CHOOSE x \in keys : TRUE
         IN  Len(attempts[k]) + TotalRecorded(attempts, keys \ {k})

LoginHandled ==
    \E req \in LoginRequests(now), handlerOk \in BOOLEAN :
        /\ TotalRecorded(loginAttempts, ClientKeys) < MaxLoginRecorded
        /\ Len(rateLimitMap[getClientKey(parseAndValidateRequest(req))])
              <= MaxLoginRecorded
        /\ AuthHandlerLogin(req, handlerOk, "uuid-1")
        /\ UNCHANGED nHandled

LoginTick == Tick(LockStep, MaxLoginTicks * LockStep)

LoginCleanup == cleanupExpiredData

NextLogin == LoginHandled \/ LoginTick \/ LoginCleanup

SpecLogin == Init /\ [][NextLogin]_vars

\* a step in which a login request reaches AuthHandler.login
ProcessedLogin ==
    /\ accepted' # accepted
    /\ last'.handler = "AuthHandler.login"

AttemptsYoung(attempts, t) ==
    \A k \in DOMAIN attempts : \A i \in 1..Len(attempts[k]) :
        t - attempts[k][i].timestamp < ATTEMPT_WINDOW

\* C19: after every operation of the server (a request validated, an
\* attempt recorded, a cleanup sweep) every attempt retained in
\* loginAttempts is younger than 24 hours
OnlyRecentAttemptsRetained ==
    [][(now' = now) => AttemptsYoung(loginAttempts', now')]_vars

\* the number of requests of api's client key that validateRateLimit
\* accepts in a row at time t, starting from map
RECURSIVE AcceptedRun(_, _, _)
AcceptedRun(map, api, t) ==
    LET v == validateRateLimit(api, t, map)
    IN  IF v.err # NoError THEN 0 ELSE 1 + AcceptedRun(v.map, api, t)

\* how many of the arrival times are a window or more before t
Released(times, t) == Len(SelectSeq(times, LAMBDA ts : t - ts >= RATE_LIMIT_WINDOW))

\* the client key's window is full: 100 accepted requests younger than 60 s
WindowFull(ip) == Len(Young(accepted[<<ip, "unknown", "unknown">>], now)) = 100

\* C20: when a client key has 100 accepted requests inside the window, then
\* at any later time at which the k earliest of them are 60 seconds old,
\* validateRateLimit accepts exactly k further requests of that key before
\* it rejects one with RATE_LIMIT_EXCEEDED
SlidingWindowRelease ==
    \A ip \in IPs : WindowFull(ip) =>
        \A i \in 0..MaxRateTicks :
            LET t == now + i * RateStep
                api == parseAndValidateRequest(
                           makeSecureRequest(ip, HealthPath, "GET", NoBody, t,
                                             "nonce-1", Absent))
            IN  AcceptedRun(rateLimitMap, api, t)
                    = Released(Young(accepted[<<ip, "unknown", "unknown">>], now), t)

\* a window filled at two different times has released its earlier part,
\* the freed slots have been used up, and the next request was rejected
SlidingWindowReleaseWitness ==
    /\ WindowFull("ip-1")
    /\ last.err.code = "RATE_LIMIT_EXCEEDED"
    /\ last.at = now
    /\ now >= 2 * RateStep
    /\ LET young == Young(accepted[<<"ip-1", "unknown", "unknown">>], now)
       IN  /\ young[1] = now - RateStep
           /\ young[100] = now

----------------------------------------------------------------------------
(* SpecShared: requests of one client key, recordings of login attempts    *)
(* and cleanup sweeps interleave in every order.  validateRateLimit,       *)
(* recordLoginAttempt and cleanupExpiredData contain no await, so each of  *)
(* them runs to its end before another request's code runs.  The clock     *)
(* first moves in steps of half a rate-limit window, then in steps of a    *)
(* day.                                                                    *)

MaxShared == 3

SharedRequests(t) ==
    { makeSecureRequest("ip-1", LoginPath, "POST", "body-1", t, "nonce-1", Absent) }

SharedRequest ==
    \E req \in SharedRequests(now) :
        /\ Len(rateLimitMap[getClientKey(parseAndValidateRequest(req))])
              < MaxShared
        /\ HandleRequest(req, FALSE, "uuid-1")
        /\ UNCHANGED nHandled

SharedRecord ==
    \E req \in SharedRequests(now), success \in BOOLEAN :
        /\ TotalRecorded(loginAttempts, ClientKeys) < MaxShared
        /\ recordLoginAttempt(req, success)

SharedCleanup == cleanupExpiredData

SharedTick ==
    \/ Tick(RateStep, RATE_LIMIT_WINDOW)
    \/ /\ now >= RATE_LIMIT_WINDOW
       /\ Tick(ATTEMPT_WINDOW, RATE_LIMIT_WINDOW + ATTEMPT_WINDOW)

NextShared == SharedRequest \/ SharedRecord \/ SharedCleanup \/ SharedTick

SpecShared == Init /\ [][NextShared]_vars

\* C21: no step loses an entry of the shared maps: for every client key the
\* requests of its rate-limit list that are inside the 60-second window
\* after the step are still in the list, in order, and so are the attempts
\* of its attempt list that are inside the 24-hour window; a request that
\* passes the rate limiter is added behind them, and the requests accepted
\* inside the window are exactly the ones the list holds
NoLostUpdates ==
    [][\A k \in ClientKeys :
          /\ IsPrefix(RecentRequests(rateLimitMap[k], now'),
                      RecentRequests(rateLimitMap'[k], now'))
          /\ IsPrefix(RecentAttempts(loginAttempts[k], now'),
                      RecentAttempts(loginAttempts'[k], now'))
          /\ Young(accepted'[k], now') = RecentRequests(rateLimitMap'[k], now')
          /\ (accepted'[k] # accepted[k]) =>
                rateLimitMap'[k] = Append(RecentRequests(rateLimitMap[k], now), now)]_vars

\* the key has sent requests at two times inside the current window and
\* has attempts on record, after the window slid past an earlier request
NoLostUpdatesWitness ==
    \E k \in ClientKeys :
        /\ now = RATE_LIMIT_WINDOW
        /\ Len(rateLimitMap[k]) >= 2
        /\ Len(rateLimitMap[k]) = Len(RecentRequests(rateLimitMap[k], now))
        /\ rateLimitMap[k][1] < now
        /\ last.youngBefore = 1
        /\ last.at = now
        /\ Len(loginAttempts[k]) >= 2


----------------------------------------------------------------------------
(* SpecCrypto: a CryptoManager is initialised, signs, is cleared, and      *)
(* encrypts and decrypts messages, in any order, and is constructed anew   *)
(* when the page is loaded again; the key store is the one IndexedDB       *)
(* record that outlives the manager's memory.                              *)

\* the messages and the conversation ids the callers pass
Messages ==
    { <<>>, <<"U+0061">>, <<"U+0061", "U+0061">>, <<BOM>>, <<BOM, "U+0061">>,
      <<"U+0061", BOM>>, <<"U+D800">> }
Contexts == { <<>>, <<"U+0061">>, <<"U+D800">>, <<"U+D801">> }

CryptoRestart == ManagerRestart

CryptoInitialize ==
    \E o \in KeyOutcomes(keyStore) : ManagerInitialize(o[1], o[2], o[3])

CryptoSignData == \E signOk \in BOOLEAN : ManagerSignData(<<"data">>, signOk)

CryptoClearAll == \E out \in {"ok", "open_failed"} : ManagerClearAll(out)

CryptoEncryptMessage ==
    \E message \in Messages, sharedSecret \in SharedSecrets,
       conversationId \in Contexts, iv \in IVs, salt \in Salts :
        ManagerEncryptMessage(message, sharedSecret, conversationId, iv, salt)

CryptoDecryptMessage ==
    \E sharedSecret \in SharedSecrets, conversationId \in Contexts :
        ManagerDecryptMessage(sharedSecret, conversationId)

NextCrypto ==
    \/ CryptoRestart
    \/ CryptoInitialize
    \/ CryptoSignData
    \/ CryptoClearAll
    \/ CryptoEncryptMessage
    \/ CryptoDecryptMessage

SpecCrypto == Init /\ [][NextCrypto]_vars

\* a caller has decrypted an envelope with the key it was made with
DecryptedWithSameKey ==
    /\ managerOp.op = "decryptMessage"
    /\ managerOp.usedSecret = managerOp.sharedSecret

\* C22: decrypting the envelope of encryptMessage(P, key, C1) with the same
\* key fails under every context other than C1 and gives back exactly P
\* under C1.
ContextBinding ==
    DecryptedWithSameKey
    => IF managerOp.usedContext # managerOp.conversationId
       THEN managerOp.threw
       ELSE ~managerOp.threw /\ managerOp.result = managerOp.message


----------------------------------------------------------------------------
(* SpecAuth: one page of the client.  The user registers, logs in, logs    *)
(* out, wipes the account, changes the avatar and asks for CAPTCHAs in any *)
(* order and with any input; the history records what each operation was  *)
(* given and which requests it sent.                                       *)

Usernames ==
    { <<>>, Repeated("a", 2), <<"a", "7", "_">>, <<"a", "!", "a">>,
      Repeated("_", 50), Repeated("a", 51) }

\* the image register is given: none, or the one file, encrypted
ProfileImages ==
    {NoImage} \cup { encryptProfileImage(file, "secret-1", "iv-1", "salt-1") : file \in Files }

\* what register can be given and can meet; what the code does not reach
\* has one value
RegisterInputs ==
    LET anyKeys == CHOOSE k \in KeyOutcomes(keyStore) : TRUE
        anySession == <<"success", TRUE, "ok">>
        valid == { u \in Usernames : validateUsername(u) }
    IN  { <<u, TRUE, TRUE, NoImage, anyKeys, anySession>> : u \in Usernames \ valid }
        \cup { <<u, c[1], c[2], NoImage, anyKeys, anySession>> :
                  u \in valid, c \in {<<FALSE, TRUE>>, <<TRUE, FALSE>>} }
        \cup { <<u, TRUE, TRUE, NoImage, k, anySession>> :
                  u \in valid,
                  k \in { o \in KeyOutcomes(keyStore) :
                            initialize(authKeys, keyStore, o[1], o[2], o[3]).threw } }
        \cup { <<u, TRUE, TRUE, image, k, o>> :
                  u \in valid, image \in ProfileImages, o \in SessionOutcomes,
                  k \in { o \in KeyOutcomes(keyStore) :
                            ~initialize(authKeys, keyStore, o[1], o[2], o[3]).threw } }

AuthAppInit ==
    /\ ~state.isInitialized
    /\ AppInit("ok", "ok", FreshKey(keyStore), "ok", "ok", "ok", TRUE)

AuthRegister ==
    \E i \in RegisterInputs, user \in Users, uuid \in SessionIds :
        handleRegister(i[1], i[2], i[3], i[4], i[5][1], i[5][2], i[5][3], i[6][1], user, uuid, i[6][2], i[6][3])

AuthLogin ==
    \/ \E user \in Users, uuid \in SessionIds :
          handleLogin(FALSE, "success", user, uuid, TRUE, "ok")
    \/ \E o \in SessionOutcomes, user \in Users, uuid \in SessionIds :
          handleLogin(TRUE, o[1], user, uuid, o[2], o[3])

AuthLogout == \E o \in LogoutOutcomes : handleLogout(o[1], o[2], o[3])

AuthWipe == \E o \in WipeOutcomes : handleWipe(WIPE_EVERYTHING, o[1], o[2], o[3], o[4], o[5])

AuthCaptcha ==
    /\ captchaLog.issued = {}
    /\ CaptchaReceived("token-1", CHOOSE solution \in Solutions : TRUE)

AuthAvatar ==
    \E file \in Files, encryptOk \in BOOLEAN, response \in Responses,
       saveOut \in {"ok", "tx_failed"} :
        /\ (session = NoSession \/ ~encryptOk) => response = "success"
        /\ (session = NoSession \/ ~encryptOk \/ response # "success") => saveOut = "ok"
        /\ updateAvatar(file, encryptOk, "secret-1", "iv-1", "salt-1", response, saveOut)

NextAuth ==
    \/ AuthAppInit \/ AuthRegister \/ AuthLogin \/ AuthLogout \/ AuthWipe
    \/ AuthCaptcha \/ AuthAvatar

SpecAuth == Init /\ [][NextAuth]_vars

\* the request makeSecureRequest builds from what it was called with
Outbound(s) ==
    makeSecureRequest("ip-1", s.path, s.method, s.body, now, "nonce-1", s.sessionToken)

\* the exported private keys of the key pairs the client may hold
PrivateKeys == { privateKey(generateKeyPair(k)) : k \in KeyIds }

\* the fields of the request bodies that are strings, and the headers that
\* are; the other values are the user name, the encrypted image, the
\* timestamp and the HMAC
StringFields == {"publicKey", "sessionId", "confirmation", "captcha", "captchaToken"}
BodyStrings(req) == { req.body[f] : f \in DOMAIN req.body \cap StringFields }
HeaderStrings(req) == {req.contentType, req.xNonce, req.xSessionToken, req.ua, req.fp}

\* C23: no request the client sends (registration, login, logout, wipe,
\* avatar update, CAPTCHA, user name check) carries the private key in its
\* body or its headers, and the key the registration request carries is
\* the public key of the pair the client holds.
PrivateKeyCustody ==
    \A i \in 1..Len(client.sent) :
        LET req == Outbound(client.sent[i])
        IN  /\ (BodyStrings(req) \cup HeaderStrings(req)) \cap PrivateKeys = {}
            /\ (req.path = RegisterPath) => req.body.publicKey = getPublicKey(authKeys)

PrivateKeyCustodyWitness ==
    /\ client.op = "register"
    /\ ~client.threw
    /\ Len(client.sent) = 2
    /\ client.sent[2].path = RegisterPath
    /\ client.sent[2].body.publicKey = getPublicKey(authKeys)
    /\ authKeys.privateKeyObj
    /\ privateKey(authKeys) \in PrivateKeys


\* a user name of 3 to 50 letters, digits and underscores
WellShaped(username) ==
    /\ Len(username) \in 3..50
    /\ \A i \in 1..Len(username) : username[i] \in {"a", "7", "_"}

\* register was given a user name of the wrong shape or a CAPTCHA answer
\* that does not validate
RegisterRefused ==
    /\ client.op = "register"
    /\ ~WellShaped(client.input.username) \/ ~client.input.captchaValid

\* C24: a register() given a user name of the wrong shape or a CAPTCHA
\* answer that fails validation throws, sends no /api/auth/register request
\* and leaves the session in memory and the persisted one as they were.
InvalidRegistrationRejected ==
    [][RegisterRefused' =>
          /\ client'.threw
          /\ \A i \in 1..Len(client'.sent) : client'.sent[i].path # RegisterPath
          /\ session' = session
          /\ sessions' = sessions]_vars

InvalidRegistrationRejectedWitness ==
    /\ RegisterRefused
    /\ WellShaped(client.input.username)
    /\ Len(client.sent) = 1
    /\ client.sent[1].path = CheckUsernamePath
    /\ session # NoSession


\* C25: whenever login() or register() ends by throwing, the session in
\* memory is the one from before the call, so isAuthenticated() does not
\* become true through an operation that reported failure.
FailedAuthenticationKeepsSession ==
    [][(client'.op \in {"login", "register"} /\ client'.threw) =>
          /\ session' = session
          /\ isAuthenticated(session', now') => isAuthenticated(session, now)]_vars


\* C26: a request that validateRateLimit rejects with RATE_LIMIT_EXCEEDED is
\* not added and changes no client's stored list, so the requests that
\* count at any later time are the same as without it.
RejectedRequestLeavesRateState ==
    [][(RateRequest /\ last'.err.code = "RATE_LIMIT_EXCEEDED") =>
          /\ rateLimitMap' = rateLimitMap
          /\ \A k \in ClientKeys :
                RecentRequests(rateLimitMap'[k], now + RATE_LIMIT_WINDOW)
                    = RecentRequests(rateLimitMap[k], now + RATE_LIMIT_WINDOW)]_vars

RejectedRequestLeavesRateStateWitness ==
    \E k \in ClientKeys :
        /\ last.err.code = "RATE_LIMIT_EXCEEDED"
        /\ last.at = now
        /\ Len(rateLimitMap[k]) = RATE_LIMIT_MAX_REQUESTS
        /\ rateLimitMap[k][1] < now
        /\ rateLimitMap[k][RATE_LIMIT_MAX_REQUESTS] = now


----------------------------------------------------------------------------
(* SpecIsolation: two clients that differ in their IP address try to log   *)
(* in; attempts of either are recorded, and the clock moves on by the day  *)
(* of one lockout.                                                         *)

MaxIsolated == 4

IsolationRequests(t) ==
    { makeSecureRequest(ip, LoginPath, "POST", "body-1", t, "nonce-1", Absent) : ip \in IPs }

IsolationRequest ==
    /\ nHandled < MaxHandled
    /\ \E req \in IsolationRequests(now) : HandleRequest(req, FALSE, "uuid-1")
    /\ nHandled' = nHandled + 1

IsolationRecord ==
    \E req \in IsolationRequests(now), success \in BOOLEAN :
        /\ TotalRecorded(loginAttempts, ClientKeys) < MaxIsolated
        /\ recordLoginAttempt(req, success)

IsolationTick == Tick(LOCKOUT_BASE_DURATION, LOCKOUT_BASE_DURATION)

NextIsolation == IsolationRequest \/ IsolationRecord \/ IsolationTick

SpecIsolation == Init /\ [][NextIsolation]_vars

InitializedCanSign ==
    (managerOp.op = "initialize" /\ ~managerOp.threw) =>
        signData(manager.keys, <<"data">>, TRUE) # NoSignature

\* C29: isInitialized = true implies keys not null; after clearAll() the
\* manager is not initialized, so that encryptMessage refuses to run.
InitializedHasKeys ==
    /\ manager.isInitialized => manager.keys # NoKeys
    /\ (managerOp.op = "clearAll") =>
          /\ ~manager.isInitialized
          /\ encryptMessage(manager.isInitialized, <<>>, "secret-1", <<>>, "iv-1", "salt-1")
                = NoEnvelope


\* the paths the client asks for during registration and login
AnonymousPaths == {CheckUsernamePath, CaptchaPath, RegisterPath, LoginPath}

\* C30: every request the client sends without a session during
\* registration and login goes to a path that the server treats as public
\* and routes to a handler, so that an anonymous client can get through
\* registration and login.
AnonymousProtocolAgreed ==
    \A i \in 1..Len(client.sent) :
        LET api == parseAndValidateRequest(Outbound(client.sent[i]))
        IN  (api.sessionToken = Absent /\ api.path \in AnonymousPaths) =>
               /\ ~requiresAuthentication(api.path)
               /\ routeRequest(api).handler # "none"

====
